---- MODULE Spec2Model ----
(***************************************************************************)
(* A model of the key-value server's stream value type (value/stream.rs),  *)
(* of its key space (storage/memory.rs, commands/), of its connection loop *)
(* (main.rs) and of its master/replica replication (replication/master.rs, *)
(* replication/replica.rs, commands/repl.rs, engine/redis.rs).             *)
(*                                                                         *)
(* SpecStream : XADD on one stream (id parsing, allocation, append).       *)
(* SpecQuery  : SpecStream with XRANGE.                                    *)
(* SpecBlock  : XREAD, blocking or not, beside a connection doing XADD.    *)
(* SpecStore  : GET, SET, TYPE, KEYS, XADD, XRANGE on the expiring keys.   *)
(* SpecConn   : the loop of serve on one client connection.                *)
(* Spec       : a master with its replication loop, client connections     *)
(*              issuing SET and WAIT, and replicas attached over ordered,  *)
(*              reliable sockets.                                          *)
(* FairSpec   : Spec with the fairness of the task scheduler.              *)
(* SpecWait   : a master with two replicas, one client connection issuing *)
(*              SET and WAIT, and no failing socket.                       *)
(* SpecReplica: the key space of a replica node and its clients.           *)
(* SpecCodec  : the RESP2 encoder and decoder on small values.             *)
(* SpecApply  : the loop of a replica on the frames of its master.         *)
(* SpecApplyQueue : that loop on a long run of SET frames.                 *)
(***************************************************************************)
EXTENDS Integers, Sequences, FiniteSets, TLC

(***************************************************************************)
(* Bounds of the model.                                                    *)
(***************************************************************************)
\* u64::MAX, scaled down: stream ids live in (0..U64Max) x (0..U64Max) and
\* U64Max is the sentinel "allocate".
U64Max == 3
\* Wall-clock readings (ms since the epoch) are drawn from 1..MaxClock.
MaxClock == 2
\* XADD commands issued on the stream.
MaxAppends == 3
\* Replica nodes that connect to the master in Spec.
MaxReplicas == 1
\* Replica nodes that connect to the master in SpecWait.
MaxNodes == 2
\* SET commands issued to the master, over all client connections.
MaxWrites == 2
\* WAIT commands issued to the master.
MaxWaits == 1
\* Ack rounds the replication loop runs for one WAIT.
MaxRounds == 2

MaxQueryMs == 2

MaxQueries == 1

MaxTime == 3

MaxPx == 2

MaxStoreWrites == 2

MaxRequests == 3
\* Bytes of a simple or bulk string, and items of an array, that are
\* encoded and decoded.
MaxText == 2
MaxItems == 2
\* Frames a replica reads from its master, of any kind.
MaxFrames == 4
\* SET frames a replica reads from its master, one after the other.
MaxSets == 130

VARIABLES
    entries,        \* Stream.entries : the ids stored (BTreeMap keys)
    last_id,        \* Stream.last_id
    first_id,       \* Stream.first_id
    entries_added,  \* Stream.entries_added
    xadd_count,     \* XADD commands handled so far
    xadd_out,       \* the last XADD: its id argument, clock reading, reply
    xq_out,         \* the last XRANGE since the last XADD, and its reply
    xq_count,       \* XRANGE commands served so far
    bstreams,       \* beside XREAD: key -> the entries and last_id of a stream
    bappends,       \* beside XREAD: XADD commands served so far
    bsend,          \* the key whose update an XADD has still to send, or ""
    reader,         \* the connection running XREAD: position, request, output
    receiver,       \* the updates received and not yet read by for_keys
    data,           \* Memory.data: key -> the value and its expiration
    clock,          \* SystemTime::now(), in ms
    swrites,        \* Write commands handed to the replication queue by SET
    lastw,          \* per key: the last command that wrote it
    sout,           \* the last command on the key space and its reply
    csock,          \* one connection: pieces sent by the client, not yet read
    ceof,           \* the client has closed its side
    csent,          \* requests the client has sent
    cbuf,           \* serve's buf
    conn,           \* serve's position and the request in its handler
    clog,           \* what serve did, in order: decode, done, write
    \* ---- the master ----
    mstore,         \* the master's storage: key -> string value ("" = absent)
    setpc,          \* per client connection: the SET handler's position
    commands,       \* the replication_commands queue (mpsc, Write events)
    clients,        \* the new-replica queue (mpsc of (socket, node, offset))
    moffset,        \* ReplicationState.offset of the master
    offsets,        \* replication_loop's offsets: node -> recorded offset
    loop,           \* replication_loop / collect_offsets / ack_round position
    wait,           \* the WAIT handler of the waiting client and its timer
    \* ---- sockets and replicas ----
    wire,           \* per replica: frames sent by the master, not yet read
    back,           \* per replica: ACK frames sent to the master, not yet read
    rstat,          \* per replica: "absent", "psync", "streaming", "refused"
    roffset,        \* per replica: its ReplicationState.offset
    rstore,         \* per replica: its storage
    \* ---- history ----
    hist,           \* what was committed, answered, broadcast and applied
    \* ---- the RESP2 codec ----
    resp_in,        \* the value handed to to_bytes
    resp_bytes,     \* the bytes to_bytes returned
    resp_out,       \* what from_bytes made of a prefix of them
    \* ---- the apply loop of a replica ----
    apply           \* replica::start: position, offset, engine queue, reply

streamVars ==
    <<entries, last_id, first_id, entries_added, xadd_count, xadd_out>>

replVars == <<mstore, setpc, commands, clients, moffset, offsets, loop, wait,
              wire, back, rstat, roffset, rstore, hist>>

queryVars == <<xq_out, xq_count>>

blockVars == <<bstreams, bappends, bsend, reader, receiver>>

\* What the actions of one part leave alone.
storeVars == <<data, clock, swrites, lastw, sout>>

connVars == <<csock, ceof, csent, cbuf, conn, clog>>

codecVars == <<resp_in, resp_bytes, resp_out>>

applyVars == <<apply>>

nonReplVars ==
    <<streamVars, queryVars, blockVars, storeVars, connVars, codecVars,
      applyVars>>

nonStreamVars ==
    <<blockVars, storeVars, connVars, replVars, codecVars, applyVars>>

nonBlockVars ==
    <<streamVars, queryVars, storeVars, connVars, replVars, codecVars,
      applyVars>>

nonStoreVars ==
    <<streamVars, queryVars, blockVars, connVars, replVars, codecVars,
      applyVars>>

nonConnVars ==
    <<streamVars, queryVars, blockVars, storeVars, replVars, codecVars,
      applyVars>>

nonCodecVars ==
    <<streamVars, queryVars, blockVars, storeVars, connVars, replVars,
      applyVars>>

nonApplyVars ==
    <<streamVars, queryVars, blockVars, storeVars, connVars, replVars,
      codecVars>>

vars ==
    <<streamVars, queryVars, blockVars, storeVars, connVars, replVars,
      codecVars, applyVars>>

(***************************************************************************)
(* StreamId: a pair <<ms, seq>>, ordered lexicographically (derive Ord).   *)
(***************************************************************************)
StreamIdMAX == <<U64Max, U64Max>>

StreamIdMIN == <<0, 0>>

U64 == 0..U64Max

StreamIds == U64 \X U64

IdLess(a, b) == a[1] < b[1] \/ (a[1] = b[1] /\ a[2] < b[2])

IdLe(a, b) == a = b \/ IdLess(a, b)

\* The id arguments a client can write: "*", "<ms>-*", "<ms>-<seq>" with
\* decimal numerals in range, and text that is no id at all.
IdArgs ==
    {[form |-> "star"], [form |-> "bad"]}
      \cup {[form |-> "auto", ms |-> m] : m \in U64}
      \cup {[form |-> "explicit", ms |-> m, seq |-> s] : m \in U64, s \in U64}

\* StreamId::from_str: "*" is StreamId::MAX, "<ms>-*" carries u64::MAX as its
\* sequence, anything without a '-' or with a non-number is an error.
StreamIdFromStr(s) ==
    CASE s.form = "star"     -> [ok |-> TRUE, id |-> StreamIdMAX]
      [] s.form = "auto"     -> [ok |-> TRUE, id |-> <<s.ms, U64Max>>]
      [] s.form = "explicit" -> [ok |-> TRUE, id |-> <<s.ms, s.seq>>]
      [] OTHER               -> [ok |-> FALSE, id |-> StreamIdMIN]

ParseError == "Could not parse stream id"

ErrZero == "ERR The ID specified in XADD must be greater than 0-0"

ErrSmall ==
    "ERR The ID specified in XADD is equal or smaller than the target stream top item"

\* Stream::map_key_allocation, first half: a ms of u64::MAX is replaced by
\* the wall clock.
AllocMs(key, now) == IF key[1] = U64Max THEN now ELSE key[1]

\* Stream::map_key_allocation, second half: a sequence of u64::MAX becomes
\* last_id.seq + 1 when the ms equals last_id's, and 0 otherwise.
\* The sum is a u64 sum: "overflow" tells that last_id.seq + 1 left u64.
AllocSeqNoIncrement(last, ms, seq) ==
    IF seq = U64Max
    THEN [seq |-> 0, overflow |-> FALSE]
    ELSE [seq |-> seq, overflow |-> FALSE]

AllocSeq(last, ms, seq) ==
    IF seq = U64Max /\ last[1] = ms
    THEN [seq |-> (last[2] + 1) % (U64Max + 1), overflow |-> last[2] = U64Max]
    ELSE IF seq = U64Max
         THEN [seq |-> 0, overflow |-> FALSE]
         ELSE [seq |-> seq, overflow |-> FALSE]

MapKeyAllocation(last, key, now) ==
    LET ms == AllocMs(key, now)
        a  == AllocSeq(last, ms, key[2])
    IN  [id |-> <<ms, a.seq>>, overflow |-> a.overflow]

\* Stream::append, the two checks made on the id as requested (before
\* allocation): "" when the append goes on.
AppendCheckNoZero(last, key) ==
    IF IdLe(key, last) /\ key # StreamIdMIN THEN ErrSmall ELSE ""

AppendCheck(last, key) ==
    IF key = StreamIdMIN THEN ErrZero
    ELSE IF IdLe(key, last) THEN ErrSmall
    ELSE ""

NoOut == [arg |-> [form |-> "none"], now |-> 0, prev |-> StreamIdMIN,
          status |-> "none", id |-> StreamIdMIN, err |-> ""]

\* No XRANGE or XREAD was answered since the last XADD.
NoQuery == [cmd |-> "none"]

StreamInit ==
    /\ xq_out = NoQuery
    /\ xq_count = 0
    /\ entries = {}
    /\ last_id = <<0, 0>>
    /\ first_id = <<0, 0>>
    /\ entries_added = 0
    /\ xadd_count = 0
    /\ xadd_out = NoOut

Reply(arg, now, status, id, err) ==
    [arg |-> arg, now |-> now, prev |-> last_id, status |-> status,
     id |-> id, err |-> err]

\* xadd: the id argument does not parse; the stream is not touched.
XaddParseError(arg, now) ==
    /\ xadd_count < MaxAppends
    /\ ~StreamIdFromStr(arg).ok
    /\ xadd_count' = xadd_count + 1
    /\ xadd_out' = Reply(arg, now, "err", StreamIdMIN, ParseError)
    /\ xq_out' = NoQuery
    /\ UNCHANGED xq_count
    /\ UNCHANGED <<entries, last_id, first_id, entries_added,
                   nonStreamVars>>

\* xadd -> Stream::append returning Err from one of its two checks.
XaddRejected(arg, now) ==
    /\ xadd_count < MaxAppends
    /\ StreamIdFromStr(arg).ok
    /\ AppendCheck(last_id, StreamIdFromStr(arg).id) # ""
    /\ xadd_count' = xadd_count + 1
    /\ xadd_out' = Reply(arg, now, "err", StreamIdMIN,
                         AppendCheck(last_id, StreamIdFromStr(arg).id))
    /\ xq_out' = NoQuery
    /\ UNCHANGED xq_count
    /\ UNCHANGED <<entries, last_id, first_id, entries_added,
                   nonStreamVars>>

\* xadd -> Stream::append inserting the allocated id.
XaddInserted(arg, now) ==
    LET key == StreamIdFromStr(arg).id
        a   == MapKeyAllocation(last_id, key, now)
    IN  /\ xadd_count < MaxAppends
        /\ StreamIdFromStr(arg).ok
        /\ AppendCheck(last_id, key) = ""
        /\ xadd_count' = xadd_count + 1
        /\ entries' = entries \cup {a.id}
        /\ last_id' = a.id
        /\ first_id' = IF entries_added = 0 THEN a.id ELSE first_id
        /\ entries_added' = entries_added + 1
        /\ xadd_out' = Reply(arg, now, "ok", a.id, "")
        /\ xq_out' = NoQuery
        /\ UNCHANGED xq_count
        /\ UNCHANGED nonStreamVars

\* xadd -> Stream::append where last_id.seq + 1 overflows u64 in a build
\* with overflow checks: the handler panics before anything is inserted.
XaddPanicked(arg, now) ==
    LET key == StreamIdFromStr(arg).id
    IN  /\ xadd_count < MaxAppends
        /\ StreamIdFromStr(arg).ok
        /\ AppendCheck(last_id, key) = ""
        /\ MapKeyAllocation(last_id, key, now).overflow
        /\ xadd_count' = xadd_count + 1
        /\ xadd_out' = Reply(arg, now, "panic", StreamIdMIN, "")
        /\ xq_out' = NoQuery
        /\ UNCHANGED xq_count
        /\ UNCHANGED <<entries, last_id, first_id, entries_added,
                       nonStreamVars>>

NextStream ==
    \E arg \in IdArgs, now \in 1..MaxClock :
        \/ XaddParseError(arg, now)
        \/ XaddRejected(arg, now)
        \/ XaddInserted(arg, now)
        \/ XaddPanicked(arg, now)

(***************************************************************************)
(* XRANGE on the stream (commands/stream.rs, Stream::range).               *)
(***************************************************************************)
\* What a client writes as the start or the end of XRANGE: "-", "+", a bare
\* "<ms>", "<ms>-<seq>", or text that is no id.
RangeArgs ==
    {[form |-> "minus"], [form |-> "plus"], [form |-> "bad"]}
      \cup {[form |-> "bare", ms |-> m] : m \in 1..MaxQueryMs}
      \cup {[form |-> "explicit", ms |-> m, seq |-> s] :
                m \in 1..MaxQueryMs, s \in U64}

\* StreamRangeStart::from_str: "-" is MIN, text with a '-' goes through
\* StreamId::from_str, a bare number gets the sequence 0; "+" is neither.
StreamRangeStartFromStr(s) ==
    CASE s.form = "minus" -> [ok |-> TRUE, id |-> StreamIdMIN]
      [] s.form = "bare"  -> [ok |-> TRUE, id |-> <<s.ms, 0>>]
      [] s.form = "plus"  -> [ok |-> FALSE, id |-> StreamIdMIN]
      [] OTHER            -> StreamIdFromStr(s)

\* StreamRangeEnd::from_str: "+" is MAX, text with a '-' goes through
\* StreamId::from_str (where a lone "-" is no id), a bare number gets the
\* sequence u64::MAX.
StreamRangeEndFromStr(s) ==
    CASE s.form = "plus"  -> [ok |-> TRUE, id |-> StreamIdMAX]
      [] s.form = "bare"  -> [ok |-> TRUE, id |-> <<s.ms, U64Max>>]
      [] s.form = "minus" -> [ok |-> FALSE, id |-> StreamIdMIN]
      [] OTHER            -> StreamIdFromStr(s)

\* std::ops::Bound<StreamId>.
Included(id) == [kind |-> "Included", id |-> id]

Excluded(id) == [kind |-> "Excluded", id |-> id]

Unbounded == [kind |-> "Unbounded", id |-> StreamIdMIN]

AboveStart(id, lo) ==
    CASE lo.kind = "Included" -> IdLe(lo.id, id)
      [] lo.kind = "Excluded" -> IdLess(lo.id, id)
      [] OTHER                -> TRUE

BelowEnd(id, hi) ==
    CASE hi.kind = "Included" -> IdLe(id, hi.id)
      [] hi.kind = "Excluded" -> IdLess(id, hi.id)
      [] OTHER                -> TRUE

\* BTreeMap::range panics, on a map that holds something, when the start is
\* greater than the end, or equal to it with both excluded.
BTreeRangePanics(S, lo, hi) ==
    /\ S # {}
    /\ lo.kind # "Unbounded"
    /\ hi.kind # "Unbounded"
    /\ \/ IdLess(hi.id, lo.id)
       \/ lo.id = hi.id /\ lo.kind = "Excluded" /\ hi.kind = "Excluded"

\* The ids of S in ascending order (the iteration order of a BTreeMap).
RECURSIVE Ascending(_)
Ascending(S) ==
    IF S = {} THEN <<>>
    ELSE LET m == CHOOSE x \in S : \A y \in S : IdLe(x, y)
         IN  <<m>> \o Ascending(S \ {m})

\* Stream::range, its first statement: a start bound of StreamId::MAX is
\* replaced by last_id, the kind of the bound is kept.
RangeStart(last, lo) ==
    IF lo.kind # "Unbounded" /\ lo.id = StreamIdMAX
    THEN [lo EXCEPT !.id = last] ELSE lo

\* Stream::range: the entries within the bounds, ascending, or a panic.
StreamRange(S, last, lo, hi) ==
    LET from == RangeStart(last, lo) IN
    IF BTreeRangePanics(S, from, hi)
    THEN [status |-> "panic", ids |-> <<>>]
    ELSE [status |-> "ok",
          ids |-> Ascending({id \in S : AboveStart(id, from)
                                          /\ BelowEnd(id, hi)})]

\* Iterator::take(count); count.limited = FALSE stands for usize::MAX.
NoLimit == [limited |-> FALSE, n |-> 0]

Take(seq, count) ==
    IF count.limited /\ count.n < Len(seq)
    THEN SubSeq(seq, 1, count.n) ELSE seq

\* RedisEngine::range on the stream of this model.
EngineRange(S, last, lo, hi, count) ==
    LET r == StreamRange(S, last, lo, hi)
    IN  [r EXCEPT !.ids = Take(@, count)]

\* xrange: both arguments are parsed, then the inclusive range is read.
Xrange(a, b) ==
    LET lo == StreamRangeStartFromStr(a)
        hi == StreamRangeEndFromStr(b)
        r  == EngineRange(entries, last_id, Included(lo.id), Included(hi.id),
                          NoLimit)
    IN  /\ xq_count < MaxQueries
        /\ xq_count' = xq_count + 1
        /\ xq_out' = IF lo.ok /\ hi.ok
                     THEN [cmd |-> "xrange", a |-> a, b |-> b,
                           status |-> r.status, ids |-> r.ids]
                     ELSE [cmd |-> "xrange", a |-> a, b |-> b,
                           status |-> "err", ids |-> <<>>]
        /\ xadd_out' = NoOut
        /\ UNCHANGED <<entries, last_id, first_id, entries_added, xadd_count,
                       nonStreamVars>>

NextQuery ==
    \/ NextStream
    \/ \E a \in RangeArgs, b \in RangeArgs : Xrange(a, b)

(***************************************************************************)
(* XREAD, blocking or not, over two streams, beside a connection that      *)
(* appends (commands/stream.rs xread, RedisEngine::append, WaitBuilder).   *)
(* The runtime is multi-threaded (#[tokio::main]): the steps of two        *)
(* connections interleave wherever the storage lock is not held.           *)
(***************************************************************************)
StreamKeys == {"s", "t"}

\* Stream::new as far as reading goes; a key that holds no stream reads the
\* same way (RedisEngine::range answers the empty list for it).
EmptyStream == [entries |-> {}, last_id |-> <<0, 0>>]

\* The ids XADD is given beside a reader: "<ms>-*".
AppendArgs == {[form |-> "auto", ms |-> m] : m \in 1..MaxClock}

\* The ids XREAD is given: "$", a bare "<ms>", "<ms>-<seq>".
ReadArgs ==
    {[form |-> "dollar"], [form |-> "bare", ms |-> 1],
     [form |-> "explicit", ms |-> 1, seq |-> 1]}

\* The "STREAMS key.. id.." tails of the requests: one or two keys.
ReadTargets ==
    {[keys |-> <<k>>, ids |-> <<a>>] : k \in {"s"}, a \in ReadArgs}
      \cup {[keys |-> <<"s", "t">>, ids |-> <<a, b>>] :
                a \in ReadArgs, b \in ReadArgs}

\* A flag as the client wrote it: the word (in some letter case, "" when
\* the flag is not given) and the number after it.
CountFlags == {[word |-> w, n |-> 1] : w \in {"", "count", "COUNT"}}

BlockFlags ==
    {[word |-> "", n |-> 0]}
      \cup {[word |-> w, n |-> t] : w \in {"block", "BLOCK"}, t \in {0, 1}}

\* flag!: the flag is found where an argument equals the literal, byte for
\* byte; Option<Flag> turns "not found" into None.
FlagGiven(f, literal) == f.word = literal

\* StreamReadStart::from_str: "$" is StreamId::MAX, a bare ms gets sequence 0.
StreamReadStartFromStr(s) ==
    CASE s.form = "dollar" -> StreamIdMAX
      [] s.form = "bare"   -> <<s.ms, 0>>
      [] OTHER             -> <<s.ms, s.seq>>

\* StreamReadStart::into_bound.
IntoBound(id) == IF id = StreamIdMAX THEN Included(id) ELSE Excluded(id)

ReaderIdle ==
    [pc |-> "idle", keys |-> <<>>, ids |-> <<>>, count |-> NoLimit,
     block |-> FALSE, timeout |-> 0, countf |-> "", countn |-> 0,
     blockf |-> "", i |-> 0, out |-> <<>>, reply |-> "none",
     seen |-> [k \in StreamKeys |-> {}], fresh |-> {}, told |-> {},
     due |-> [k \in StreamKeys |-> {}]]

BlockInit ==
    /\ bstreams = [k \in StreamKeys |-> EmptyStream]
    /\ bappends = 0
    /\ bsend = ""
    /\ reader = ReaderIdle
    /\ receiver = <<>>

\* xadd -> RedisEngine::append, under the storage lock: Stream::append
\* inserts the allocated id.  The update is sent after the lock is dropped.
BlockXadd(k, arg, now) ==
    LET key == StreamIdFromStr(arg).id
        st  == bstreams[k]
        a   == MapKeyAllocation(st.last_id, key, now)
    IN  /\ bappends < MaxAppends
        /\ bsend = ""
        /\ AppendCheck(st.last_id, key) = ""
        /\ ~a.overflow
        /\ bappends' = bappends + 1
        /\ bstreams' = [bstreams EXCEPT
                          ![k] = [entries |-> st.entries \cup {a.id},
                                  last_id |-> a.id]]
        /\ bsend' = k
        /\ reader' = IF reader.pc \in {"idle", "done"} THEN reader
                     ELSE [reader EXCEPT !.fresh = @ \cup {<<k, a.id>>}]
        /\ UNCHANGED <<receiver, nonBlockVars>>

\* xadd -> RedisEngine::append returning Stream::append's error: nothing is
\* inserted and nothing is sent.
BlockXaddRejected(k, arg) ==
    /\ bappends < MaxAppends
    /\ bsend = ""
    /\ AppendCheck(bstreams[k].last_id, StreamIdFromStr(arg).id) # ""
    /\ bappends' = bappends + 1
    /\ UNCHANGED <<bstreams, bsend, reader, receiver, nonBlockVars>>

\* RedisEngine::append, after the lock: updates.send(stream) reaches the
\* receivers that exist at this moment, and nobody else, ever.  "told"
\* collects the fresh entries whose XADD got this far during the request.
BlockSend ==
    LET e == <<bsend, bstreams[bsend].last_id>> IN
    /\ bsend # ""
    /\ bsend' = ""
    /\ receiver' = IF reader.pc = "waiting"
                   THEN Append(receiver, bsend) ELSE receiver
    /\ reader' = IF reader.pc \notin {"idle", "done"} /\ e \in reader.fresh
                 THEN [reader EXCEPT !.told = @ \cup {e}] ELSE reader
    /\ UNCHANGED <<bstreams, bappends, nonBlockVars>>

\* xread begins: the flags are extracted.  "seen" keeps what the streams
\* held at this moment, "fresh" collects what is appended from here on, and
\* "due" what of it was there when the key was read again after the wait.
XreadBegin(t, cf, bf) ==
    /\ reader.pc = "idle"
    /\ reader' = [ReaderIdle EXCEPT
                    !.pc = "scan", !.keys = t.keys, !.ids = t.ids, !.i = 1,
                    !.countf = cf.word, !.countn = cf.n,
                    !.blockf = bf.word,
                    !.count = IF FlagGiven(cf, "count")
                              THEN [limited |-> TRUE, n |-> cf.n]
                              ELSE NoLimit,
                    !.block = FlagGiven(bf, "block"),
                    !.timeout = bf.n,
                    !.seen = [k \in StreamKeys |-> bstreams[k].entries]]
    /\ UNCHANGED <<bstreams, bappends, bsend, receiver, nonBlockVars>>

\* What one pass of a loop of xread adds to the output for its i-th key.
ReadKey(out, k, start, skipMax) ==
    LET st == bstreams[k]
        r  == EngineRange(st.entries, st.last_id, IntoBound(start),
                          Unbounded, reader.count)
    IN  IF (skipMax /\ start = StreamIdMAX) \/ r.ids = <<>>
        THEN out
        ELSE Append(out, [key |-> k, ids |-> r.ids])

\* xread, the first loop, one key per step (each engine.range takes the
\* lock on its own).  After the last key: the reply, or the decision to
\* block when BLOCK was given and the output is empty.
XreadScan ==
    LET i   == reader.i
        out == ReadKey(reader.out, reader.keys[i],
                       StreamReadStartFromStr(reader.ids[i]), TRUE)
    IN  /\ reader.pc = "scan"
        /\ reader' =
             IF i < Len(reader.keys)
             THEN [reader EXCEPT !.i = i + 1, !.out = out]
             ELSE IF reader.block /\ out = <<>>
             THEN [reader EXCEPT !.pc = "armed", !.out = out]
             ELSE [reader EXCEPT !.pc = "done", !.out = out,
                                 !.reply = "array"]
        /\ UNCHANGED <<bstreams, bappends, bsend, receiver, nonBlockVars>>

\* engine.wait(): the subscription to the updates is made here, after the
\* first loop.
XreadSubscribe ==
    /\ reader.pc = "armed"
    /\ reader' = [reader EXCEPT !.pc = "waiting"]
    /\ receiver' = <<>>
    /\ UNCHANGED <<bstreams, bappends, bsend, nonBlockVars>>

\* WaitBuilder::for_keys: one recv; an update of a key that was not asked
\* for is dropped, one of a key asked for ends the wait (and the receiver).
XreadRecv ==
    /\ reader.pc = "waiting"
    /\ receiver # <<>>
    /\ IF \E j \in 1..Len(reader.keys) : reader.keys[j] = Head(receiver)
       THEN /\ reader' = [reader EXCEPT !.pc = "rescan", !.i = 1]
            /\ receiver' = <<>>
       ELSE /\ receiver' = Tail(receiver)
            /\ UNCHANGED reader
    /\ UNCHANGED <<bstreams, bappends, bsend, nonBlockVars>>

\* tokio::time::timeout elapses while for_keys is pending: the null array.
\* BLOCK 0 waits u64::MAX ms, which does not elapse.
XreadTimeout ==
    /\ reader.pc = "waiting"
    /\ reader.timeout # 0
    /\ receiver = <<>>
    /\ reader' = [reader EXCEPT !.pc = "done", !.reply = "null"]
    /\ UNCHANGED <<bstreams, bappends, bsend, receiver, nonBlockVars>>

\* xread, the loop after the wait, one key per step: every key is read
\* again from into_bound of its id, "$" included.
XreadRescan ==
    LET i   == reader.i
        out == ReadKey(reader.out, reader.keys[i],
                       StreamReadStartFromStr(reader.ids[i]), FALSE)
        due == [reader.due EXCEPT ![reader.keys[i]] =
                   {id \in StreamIds : <<reader.keys[i], id>> \in reader.fresh}]
    IN  /\ reader.pc = "rescan"
        /\ reader' =
             IF i < Len(reader.keys)
             THEN [reader EXCEPT !.i = i + 1, !.out = out, !.due = due]
             ELSE [reader EXCEPT !.pc = "done", !.out = out, !.due = due,
                                 !.reply = "array"]
        /\ UNCHANGED <<bstreams, bappends, bsend, receiver, nonBlockVars>>

NextBlock ==
    \/ \E k \in StreamKeys, arg \in AppendArgs, now \in 1..MaxClock :
          \/ BlockXadd(k, arg, now)
          \/ BlockXaddRejected(k, arg)
    \/ BlockSend
    \/ \E t \in ReadTargets, cf \in CountFlags, bf \in BlockFlags :
          XreadBegin(t, cf, bf)
    \/ XreadScan
    \/ XreadSubscribe
    \/ XreadRecv
    \/ XreadTimeout
    \/ XreadRescan

(***************************************************************************)
(* The key space: Memory with its lazy expiration, and GET, SET, TYPE,     *)
(* KEYS, XADD and XRANGE on it (storage/memory.rs, engine/redis.rs,        *)
(* commands/mod.rs).  A stream is kept here by the number of its entries.  *)
(***************************************************************************)
StoreKeys == {"k", "j"}

StoreVals == {"a", "b"}

\* Option<SystemTime>.
NoExp == [some |-> FALSE, at |-> 0]

ExpAt(t) == [some |-> TRUE, at |-> t]

\* What data holds for a key: nothing, or (RedisValue, Option<SystemTime>).
Absent == [kind |-> "none", val |-> "", n |-> 0, exp |-> NoExp]

StringEntry(v, exp) == [kind |-> "string", val |-> v, n |-> 0, exp |-> exp]

StreamEntry(n) == [kind |-> "stream", val |-> "", n |-> n, exp |-> NoExp]

\* The PX flag as the client wrote it ("" when it is not given) and the
\* milliseconds after it.
PxFlags ==
    {[word |-> "", n |-> 0]}
      \cup {[word |-> w, n |-> ms] : w \in {"px", "PX", "Px"}, ms \in 1..MaxPx}

\* Memory::is_expired.
IsExpiredAtDeadline(exp, now) == exp.some /\ now >= exp.at

IsExpired(exp, now) == exp.some /\ now > exp.at

\* Memory::get and Memory::get_mut: an expired entry is removed and
\* reported as None.
MemoryGet(d, key, now) ==
    IF d[key].kind # "none" /\ IsExpired(d[key].exp, now)
    THEN [data |-> [d EXCEPT ![key] = Absent], found |-> Absent]
    ELSE [data |-> d, found |-> d[key]]

MemoryGetMut(d, key, now) == MemoryGet(d, key, now)

\* Memory::get_or_insert: a vacant or expired entry becomes (value(), None).
MemoryGetOrInsert(d, key, now, value) ==
    IF d[key].kind # "none" /\ ~IsExpired(d[key].exp, now)
    THEN [data |-> d, found |-> d[key]]
    ELSE [data |-> [d EXCEPT ![key] = value], found |-> value]

\* Memory::get_keys: every key of data.
MemoryGetKeys(d) == {key \in StoreKeys : d[key].kind # "none"}

NoReply == [cmd |-> "none"]

\* The call a handler made into Memory: the entry before it, the clock it
\* read, what it reported and the entry it left.
MemCall(op, key, now, r) ==
    [op |-> op, pre |-> data[key], now |-> now, found |-> r.found,
     post |-> r.data[key]]

StoreInit ==
    /\ data = [key \in StoreKeys |-> Absent]
    /\ clock = 0
    /\ swrites = 0
    /\ lastw = [key \in StoreKeys |-> [by |-> "none"]]
    /\ sout = NoReply

\* SystemTime::now() moves on.
Tick ==
    /\ clock < MaxTime
    /\ clock' = clock + 1
    /\ UNCHANGED <<data, swrites, lastw, sout, nonStoreVars>>

\* set + RedisEngine::set: the expiration is now + ms when the Px extractor
\* found its flag; the value is stored and handed to the replication queue.
StoreSet(key, v, px) ==
    LET eol == IF FlagGiven(px, "px") THEN ExpAt(clock + px.n) ELSE NoExp
    IN  /\ swrites < MaxStoreWrites
        /\ swrites' = swrites + 1
        /\ data' = [data EXCEPT ![key] = StringEntry(v, eol)]
        /\ lastw' = [lastw EXCEPT
                       ![key] = [by |-> "set", val |-> v, px |-> px.word]]
        /\ sout' = [cmd |-> "set", key |-> key, px |-> px, now |-> clock,
                    reply |-> "OK"]
        /\ UNCHANGED <<clock, nonStoreVars>>

\* RedisEngine::get on what Memory::get found.
EngineGetAnyType(found) ==
    IF found.kind = "none" THEN [kind |-> "null", val |-> ""]
    ELSE [kind |-> "bulk", val |-> found.val]

EngineGet(found) ==
    CASE found.kind = "none"   -> [kind |-> "null", val |-> ""]
      [] found.kind = "string" -> [kind |-> "bulk", val |-> found.val]
      [] OTHER -> [kind |-> "err", val |-> "InvalidType(string)"]

\* get.
StoreGet(key) ==
    LET r == MemoryGet(data, key, clock)
    IN  /\ data' = r.data
        /\ sout' = [cmd |-> "get", key |-> key, now |-> clock,
                    mem |-> MemCall("get", key, clock, r),
                    reply |-> EngineGet(r.found)]
        /\ UNCHANGED <<clock, swrites, lastw, nonStoreVars>>

\* key_type + RedisEngine::get_type.
StoreType(key) ==
    LET r == MemoryGet(data, key, clock)
    IN  /\ data' = r.data
        /\ sout' = [cmd |-> "type", key |-> key, now |-> clock,
                    mem |-> MemCall("get", key, clock, r),
                    reply |-> r.found.kind]
        /\ UNCHANGED <<clock, swrites, lastw, nonStoreVars>>

\* keys + RedisEngine::keys.
StoreKeysCmd(pattern) ==
    /\ sout' = IF pattern # "*"
               THEN [cmd |-> "keys", pattern |-> pattern, now |-> clock,
                     err |-> TRUE, reply |-> {}]
               ELSE [cmd |-> "keys", pattern |-> pattern, now |-> clock,
                     err |-> FALSE, reply |-> MemoryGetKeys(data)]
    /\ UNCHANGED <<data, clock, swrites, lastw, nonStoreVars>>

\* xadd key * + RedisEngine::append: a live string is the wrong type, a
\* stream (found, or installed by get_or_insert) gets one more entry.
StoreXadd(key) ==
    LET r  == MemoryGetOrInsert(data, key, clock, StreamEntry(0))
        ok == r.found.kind = "stream"
    IN  /\ r.found.n < MaxAppends
        /\ data' = IF ok
                   THEN [r.data EXCEPT ![key] = StreamEntry(r.found.n + 1)]
                   ELSE r.data
        /\ lastw' = IF ok THEN [lastw EXCEPT ![key] = [by |-> "xadd"]]
                    ELSE lastw
        /\ sout' = [cmd |-> "xadd", key |-> key, now |-> clock,
                    mem |-> MemCall("get_or_insert", key, clock, r),
                    reply |-> IF ok THEN "id" ELSE "InvalidType(stream)"]
        /\ UNCHANGED <<clock, swrites, nonStoreVars>>

\* xadd key 0-0 + RedisEngine::append: get_or_insert finds or installs the
\* value first; a live string is the wrong type, and on a stream
\* Stream::append refuses the id 0-0, whatever the stream's last id is,
\* before it inserts anything.  No update is sent on either error.
StoreXaddZero(key) ==
    LET r   == MemoryGetOrInsert(data, key, clock, StreamEntry(0))
        ok  == r.found.kind = "stream"
        err == AppendCheck(StreamIdMIN, StreamIdMIN)
    IN  /\ data' = r.data
        /\ lastw' = IF r.data # data
                    THEN [lastw EXCEPT ![key] = [by |-> "xadd"]]
                    ELSE lastw
        /\ sout' = [cmd |-> "xadd", key |-> key, now |-> clock,
                    mem |-> MemCall("get_or_insert", key, clock, r),
                    reply |-> IF ok THEN err ELSE "InvalidType(stream)"]
        /\ UNCHANGED <<clock, swrites, nonStoreVars>>

\* xrange key - + + RedisEngine::range: the entries of a stream, the empty
\* list for anything else.
StoreXrange(key) ==
    LET r == MemoryGetMut(data, key, clock)
    IN  /\ data' = r.data
        /\ sout' = [cmd |-> "xrange", key |-> key, now |-> clock,
                    mem |-> MemCall("get_mut", key, clock, r),
                    reply |-> IF r.found.kind = "stream" THEN r.found.n
                              ELSE 0]
        /\ UNCHANGED <<clock, swrites, lastw, nonStoreVars>>

NextStore ==
    \/ Tick
    \/ \E key \in StoreKeys, v \in StoreVals, px \in PxFlags :
          StoreSet(key, v, px)
    \/ \E key \in StoreKeys : StoreGet(key)
    \/ \E key \in StoreKeys : StoreType(key)
    \/ \E pattern \in {"*", "k*"} : StoreKeysCmd(pattern)
    \/ \E key \in StoreKeys : StoreXadd(key)
    \/ \E key \in StoreKeys : StoreXaddZero(key)
    \/ \E key \in StoreKeys : StoreXrange(key)

(***************************************************************************)
(* The key space of a replica node: what its file held when it started,    *)
(* the SET frames of its master, and the commands of its own clients as    *)
(* its router dispatches them (main.rs, replication/replica.rs).           *)
(***************************************************************************)
\* The routes of the master's router.
MasterRoutes ==
    {"ping", "echo", "get", "set", "info", "replconf", "psync", "wait",
     "config", "keys", "type", "xadd", "xrange", "xread"}

\* The routes of the replica's router for its clients.
ReplicaRoutes ==
    {"ping", "echo", "get", "info", "replconf", "config", "keys", "type",
     "xrange", "xread"}

\* The commands a client of the replica sends.
ClientCommands ==
    {"ping", "get", "type", "keys", "xrange", "set", "xadd", "psync", "wait"}

\* Persisted::load: the entries of the db file, with their expirations.
LoadedEntries ==
    {Absent, StringEntry("a", NoExp), StringEntry("a", ExpAt(1))}

\* create_engine on the replica: the memory holds what the file held.
ReplicaStoreInit ==
    /\ data \in [StoreKeys -> LoadedEntries]
    /\ clock = 0
    /\ swrites = 0
    /\ lastw = [key \in StoreKeys |-> [by |-> "none"]]
    /\ sout = NoReply

\* replica::set on a SET frame of the master: storage.set(key, value, None).
ReplicaApply(key, v) ==
    /\ swrites < MaxStoreWrites
    /\ swrites' = swrites + 1
    /\ data' = [data EXCEPT ![key] = StringEntry(v, NoExp)]
    /\ lastw' = [lastw EXCEPT ![key] = [by |-> "master", val |-> v]]
    /\ sout' = [cmd |-> "applied", key |-> key, now |-> clock,
                reply |-> "none"]
    /\ UNCHANGED <<clock, nonStoreVars>>

\* A command of a client on the replica: the handler of its route runs, or
\* no route matches and no handler does.
ReplicaClient(cmd, key, v) ==
    IF cmd \notin ReplicaRoutes
    THEN /\ sout' = [cmd |-> cmd, key |-> key, now |-> clock,
                     reply |-> "unrouted"]
         /\ UNCHANGED <<data, clock, swrites, lastw, nonStoreVars>>
    ELSE CASE cmd = "get"    -> StoreGet(key)
           [] cmd = "type"   -> StoreType(key)
           [] cmd = "keys"   -> StoreKeysCmd("*")
           [] cmd = "xrange" -> StoreXrange(key)
           [] cmd = "set"    -> StoreSet(key, v, [word |-> "", n |-> 0])
           [] cmd = "xadd"   -> StoreXadd(key)
           [] OTHER ->
                /\ sout' = [cmd |-> cmd, key |-> key, now |-> clock,
                            reply |-> "handled"]
                /\ UNCHANGED <<data, clock, swrites, lastw, nonStoreVars>>

NextReplica ==
    \/ Tick
    \/ \E key \in StoreKeys, v \in StoreVals : ReplicaApply(key, v)
    \/ \E cmd \in ClientCommands, key \in StoreKeys, v \in StoreVals :
          ReplicaClient(cmd, key, v)

(***************************************************************************)
(* One client connection: the loop of serve (main.rs).  A request travels  *)
(* as two pieces, so that a read may end in the middle of a request or     *)
(* bring several requests at once.                                         *)
(***************************************************************************)
\* "cmd" is routed to a handler that answers, "empty" is the empty array,
\* "psync" is answered by Response::Upgrade.
RequestKinds == {"cmd", "empty", "psync"}

Piece(n, part, kind) == [req |-> n, part |-> part, kind |-> kind]

\* resp2::from_bytes::<Vec<String>> on the buffer: it succeeds when the
\* buffer starts with a whole request.
FromBytes(buf) ==
    /\ Len(buf) >= 2
    /\ buf[1].part = 1
    /\ buf[2] = Piece(buf[1].req, 2, buf[1].kind)

Drop(seq, n) == SubSeq(seq, n + 1, Len(seq))

ConnInit ==
    /\ csock = <<>>
    /\ ceof = FALSE
    /\ csent = 0
    /\ cbuf = <<>>
    /\ conn = [pc |-> "read", cur |-> 0, kind |-> ""]
    /\ clog = <<>>

\* The client writes its next request on the socket.
ClientSend(kind) ==
    /\ ~ceof
    /\ csent < MaxRequests
    /\ csent' = csent + 1
    /\ csock' = csock \o <<Piece(csent + 1, 1, kind),
                           Piece(csent + 1, 2, kind)>>
    /\ UNCHANGED <<ceof, cbuf, conn, clog, nonConnVars>>

\* The client closes its side: reads return 0 once the socket is drained.
ClientClose ==
    /\ ~ceof
    /\ ceof' = TRUE
    /\ UNCHANGED <<csock, csent, cbuf, conn, clog, nonConnVars>>

\* The client writes the first part of its next request and closes its
\* side, or its process ends there.
ClientCloseMidRequest(kind) ==
    /\ ~ceof
    /\ csent < MaxRequests
    /\ csent' = csent + 1
    /\ csock' = Append(csock, Piece(csent + 1, 1, kind))
    /\ ceof' = TRUE
    /\ UNCHANGED <<cbuf, conn, clog, nonConnVars>>

\* The loop is at read_buf, no handler is running.
AtReadBufAnyTime(c) == c.pc # "closed"

AtReadBuf(c) == c.pc = "read"

\* serve, from read_buf to the call of the router: n pieces are read (0 at
\* end of stream); the loop ends on 0 bytes with an empty buffer, goes
\* round when no whole request is buffered or the request is empty, and
\* otherwise calls the handler of the request decoded.
ServeRead(n) ==
    LET buf == cbuf \o SubSeq(csock, 1, n) IN
    /\ AtReadBuf(conn)
    /\ IF csock = <<>> THEN ceof /\ n = 0 ELSE n \in 1..Len(csock)
    /\ csock' = Drop(csock, n)
    /\ IF n = 0 /\ buf = <<>>
       THEN /\ conn' = [pc |-> "closed", cur |-> 0, kind |-> ""]
            /\ UNCHANGED <<cbuf, clog>>
       ELSE IF ~FromBytes(buf)
       THEN /\ cbuf' = buf
            /\ UNCHANGED <<conn, clog>>
       ELSE /\ cbuf' = Drop(buf, 2)
            /\ clog' = Append(clog, [ev |-> "decode", req |-> buf[1].req,
                                     kind |-> buf[1].kind])
            /\ conn' = IF buf[1].kind = "empty"
                       THEN [pc |-> "read", cur |-> 0, kind |-> ""]
                       ELSE [pc |-> "handling", cur |-> buf[1].req,
                             kind |-> buf[1].kind]
    /\ UNCHANGED <<ceof, csent, nonConnVars>>

\* router.oneshot(request).await returns the response.
HandlerDone ==
    /\ conn.pc = "handling"
    /\ conn.kind = "cmd"
    /\ conn' = [conn EXCEPT !.pc = "writing"]
    /\ clog' = Append(clog, [ev |-> "done", req |-> conn.cur,
                             kind |-> conn.kind])
    /\ UNCHANGED <<csock, ceof, csent, cbuf, nonConnVars>>

\* The response is Response::Upgrade: the connection is handed to the
\* replication loop (or, that loop being gone, gets an error), and serve
\* returns.
HandlerUpgrade ==
    /\ conn.pc = "handling"
    /\ conn.kind = "psync"
    /\ conn' = [pc |-> "closed", cur |-> 0, kind |-> ""]
    /\ clog' = Append(clog, [ev |-> "done", req |-> conn.cur,
                             kind |-> conn.kind])
    /\ UNCHANGED <<csock, ceof, csent, cbuf, nonConnVars>>

\* response.write(&mut write).await succeeds: the loop goes round.
ServeWrite ==
    /\ conn.pc = "writing"
    /\ conn' = [pc |-> "read", cur |-> 0, kind |-> ""]
    /\ clog' = Append(clog, [ev |-> "write", req |-> conn.cur,
                             kind |-> conn.kind])
    /\ UNCHANGED <<csock, ceof, csent, cbuf, nonConnVars>>

\* response.write(&mut write).await fails: serve returns the error.
ServeWriteFailed ==
    /\ conn.pc = "writing"
    /\ conn' = [pc |-> "closed", cur |-> 0, kind |-> ""]
    /\ UNCHANGED <<csock, ceof, csent, cbuf, clog, nonConnVars>>

NextConn ==
    \/ \E kind \in RequestKinds : ClientSend(kind)
    \/ ClientClose
    \/ \E kind \in RequestKinds : ClientCloseMidRequest(kind)
    \/ \E n \in 0..(2 * MaxRequests) : ServeRead(n)
    \/ HandlerDone
    \/ HandlerUpgrade
    \/ ServeWrite
    \/ ServeWriteFailed

(***************************************************************************)
(* The RESP2 codec: to_bytes and from_bytes (encoding/resp2).  Bytes are   *)
(* sequences of one-character strings; CR and LF stand for the two bytes   *)
(* of the separator.                                                       *)
(***************************************************************************)
CRLF == <<"CR", "LF">>

Chars == {"a", "b"}

\* The byte strings of at most n bytes.
RECURSIVE Texts(_)
Texts(n) ==
    IF n = 0 THEN {<<>>}
    ELSE Texts(n - 1) \cup {Append(t, c) : t \in Texts(n - 1), c \in Chars}

\* The arrays of at most n byte strings.
RECURSIVE Arrays(_)
Arrays(n) ==
    IF n = 0 THEN {<<>>}
    ELSE Arrays(n - 1)
           \cup {Append(a, t) : a \in Arrays(n - 1), t \in Texts(MaxText)}

IntValues == {-1, 0, 7, 12}

\* The values resp_bytes: a str, an integer, a byte string, None, a sequence of
\* byte strings.
Frames ==
    {[kind |-> "simple", s |-> t, n |-> 0, items |-> <<>>] :
        t \in Texts(MaxText)}
      \cup {[kind |-> "int", s |-> <<>>, n |-> i, items |-> <<>>] :
              i \in IntValues}
      \cup {[kind |-> "bulk", s |-> t, n |-> 0, items |-> <<>>] :
              t \in Texts(MaxText)}
      \cup {[kind |-> "nil", s |-> <<>>, n |-> 0, items |-> <<>>]}
      \cup {[kind |-> "array", s |-> <<>>, n |-> 0, items |-> a] :
              a \in Arrays(MaxItems)}

NoFrame == [kind |-> "none", s |-> <<>>, n |-> 0, items |-> <<>>]

DigitChars == <<"0", "1", "2", "3", "4", "5", "6", "7", "8", "9">>

\* The decimal digits of a natural number, as write! formats it.
RECURSIVE Decimal(_)
Decimal(n) ==
    IF n < 10 THEN <<DigitChars[n + 1]>>
    ELSE Append(Decimal(n \div 10), DigitChars[(n % 10) + 1])

Signed(n) == IF n < 0 THEN <<"-">> \o Decimal(0 - n) ELSE Decimal(n)

\* Serializer::write_str, write_bytes, write_number, write_nil.
WriteStr(t) == <<"+">> \o t \o CRLF

WriteBytes(t) ==
    IF Len(t) = 0 THEN <<"$", "0">> \o CRLF
    ELSE <<"$">> \o Decimal(Len(t)) \o CRLF \o t \o CRLF

WriteNumber(n) == <<":">> \o Signed(n) \o CRLF

WriteNil == <<"$", "-", "1">> \o CRLF

\* serialize_seq and serialize_element over byte strings.
RECURSIVE WriteElements(_)
WriteElements(items) ==
    IF items = <<>> THEN <<>>
    ELSE WriteBytes(Head(items)) \o WriteElements(Tail(items))

SerializeSeq(items) ==
    <<"*">> \o Decimal(Len(items)) \o CRLF \o WriteElements(items)

\* to_bytes.
ToBytes(f) ==
    CASE f.kind = "simple" -> WriteStr(f.s)
      [] f.kind = "int"    -> WriteNumber(f.n)
      [] f.kind = "bulk"   -> WriteBytes(f.s)
      [] f.kind = "nil"    -> WriteNil
      [] OTHER             -> SerializeSeq(f.items)

\* A nom parser that failed, and one that returned (rest, value).
ParseFail == [ok |-> FALSE, rest |-> <<>>, val |-> <<>>]

Parsed(rest, val) == [ok |-> TRUE, rest |-> rest, val |-> val]

IsDigit(b) == \E i \in 1..10 : DigitChars[i] = b

\* take_while(is_digit): the length of the leading run of digits.
RECURSIVE DigitRun(_)
DigitRun(input) ==
    IF input = <<>> \/ ~IsDigit(Head(input)) THEN 0
    ELSE 1 + DigitRun(Tail(input))

RECURSIVE DecimalValue(_)
DecimalValue(ds) ==
    IF ds = <<>> THEN 0
    ELSE 10 * DecimalValue(SubSeq(ds, 1, Len(ds) - 1))
           + ((CHOOSE i \in 1..10 : DigitChars[i] = ds[Len(ds)]) - 1)

\* parse::number: the leading digits parsed as i64; no digit is an error.
ParseNumber(input) ==
    LET k == DigitRun(input) IN
    IF k = 0 THEN ParseFail
    ELSE Parsed(Drop(input, k), DecimalValue(SubSeq(input, 1, k)))

\* parse::separator.
ParseSeparator(input) ==
    IF Len(input) >= 2 /\ SubSeq(input, 1, 2) = CRLF
    THEN Parsed(Drop(input, 2), <<>>) ELSE ParseFail

\* parse::bytes: $, the length, the separator, that many bytes.
ParseBytes(input) ==
    IF input = <<>> \/ Head(input) # "$" THEN ParseFail
    ELSE LET len == ParseNumber(Tail(input)) IN
         IF ~len.ok THEN ParseFail
         ELSE IF len.val = -1 THEN Parsed(len.rest, <<>>)
         ELSE LET sep == ParseSeparator(len.rest) IN
              IF ~sep.ok \/ Len(sep.rest) < len.val THEN ParseFail
              ELSE Parsed(Drop(sep.rest, len.val),
                          SubSeq(sep.rest, 1, len.val))

\* parse::simple_string: +, then the bytes before the first separator.
ParseSimpleString(input) ==
    IF input = <<>> \/ Head(input) # "+" THEN ParseFail
    ELSE LET body == Tail(input)
             at == {i \in 1..(Len(body) - 1) : SubSeq(body, i, i + 1) = CRLF}
         IN  IF at = {} THEN ParseFail
             ELSE LET i == CHOOSE j \in at : \A l \in at : j <= l
                  IN  Parsed(Drop(body, i - 1), SubSeq(body, 1, i - 1))

\* parse::any_string: alt((simple_string, byte_string)).
ParseAnyString(input) ==
    LET simple == ParseSimpleString(input) IN
    IF simple.ok THEN simple ELSE ParseBytes(input)

\* Deserializer::get_integer, get_bytes, get_any_string: the parser, then
\* the separator.
ThenSep(p) ==
    IF ~p.ok THEN ParseFail
    ELSE LET sep == ParseSeparator(p.rest) IN
         IF ~sep.ok THEN ParseFail ELSE Parsed(sep.rest, p.val)

GetInteger(input) == ThenSep(ParseNumber(input))

GetBytes(input) == ThenSep(ParseBytes(input))

GetAnyString(input) == ThenSep(ParseAnyString(input))

\* Array::next_element_seed over byte strings: n elements, one get_bytes
\* each.
RECURSIVE Elements(_, _)
Elements(n, input) ==
    IF n = 0 THEN Parsed(input, <<>>)
    ELSE LET e == GetBytes(input) IN
         IF ~e.ok THEN ParseFail
         ELSE LET more == Elements(n - 1, e.rest) IN
              IF ~more.ok THEN ParseFail
              ELSE Parsed(more.rest, <<e.val>> \o more.val)

\* deserialize_seq.
DeserializeSeq(input) ==
    IF input = <<>> \/ Head(input) # "*" THEN ParseFail
    ELSE LET n == GetInteger(Tail(input)) IN
         IF ~n.ok THEN ParseFail ELSE Elements(n.val, n.rest)

Panicked == [t |-> "panic", val |-> <<>>, used |-> 0]

\* from_bytes into the type of the value that was resp_bytes: String, i64,
\* a byte buffer, Option, Vec of byte buffers.  deserialize_i64 and
\* deserialize_option are todo!().
FromBytesAs(kind, input) ==
    IF kind \in {"int", "nil"} THEN Panicked
    ELSE LET p == CASE kind = "simple" -> GetAnyString(input)
                    [] kind = "bulk"   -> GetBytes(input)
                    [] OTHER           -> DeserializeSeq(input)
         IN  IF p.ok
             THEN [t |-> "ok", val |-> p.val,
                   used |-> Len(input) - Len(p.rest)]
             ELSE [t |-> "err", val |-> <<>>, used |-> 0]

NoDecode == [t |-> "none", val |-> <<>>, used |-> 0, n |-> 0]

CodecInit ==
    /\ resp_in = NoFrame
    /\ resp_bytes = <<>>
    /\ resp_out = NoDecode

\* to_bytes(f).
Encode(f) ==
    /\ resp_in' = f
    /\ resp_bytes' = ToBytes(f)
    /\ resp_out' = NoDecode
    /\ UNCHANGED nonCodecVars

\* from_bytes on the first n bytes of what to_bytes returned.
Decode(n) ==
    /\ resp_in # NoFrame
    /\ LET r == FromBytesAs(resp_in.kind, SubSeq(resp_bytes, 1, n)) IN
        resp_out' = [t |-> r.t, val |-> r.val, used |-> r.used, n |-> n]
    /\ UNCHANGED <<resp_in, resp_bytes, nonCodecVars>>

NextCodec ==
    \/ \E f \in Frames : Encode(f)
    \/ \E n \in 0..Len(resp_bytes) : Decode(n)

(***************************************************************************)
(* Replication: the master's loop, its clients and its replicas.           *)
(***************************************************************************)
Replicas == 1..MaxNodes

\* The replicas that connect when clients, failures and handshakes vary.
Joining == 1..MaxReplicas

\* Client connections that issue SET (each served by its own task).
Conns == {"c1", "c2"}

Keys == {"k"}

\* The value each connection writes: two clients, two different values.
ValueOf(c) == IF c = "c1" THEN "x" ELSE "yy"

\* The count argument of WAIT.
Counts == 0..(MaxReplicas + 1)

\* mpsc::channel(128) of Write events, mpsc::channel(4) of new replicas.
CommandQueueCap == 128

ClientQueueCap == 4

Min(a, b) == IF a <= b THEN a ELSE b

\* RESP2 encoding lengths (Serializer::write_bytes, serialize_seq).
Digits(n) == IF n < 10 THEN 1 ELSE IF n < 100 THEN 2 ELSE 3

BulkLen(s) == IF Len(s) = 0 THEN 4 ELSE 1 + Digits(Len(s)) + 2 + Len(s) + 2

RECURSIVE BulksLen(_)
BulksLen(items) ==
    IF items = <<>> THEN 0 ELSE BulkLen(Head(items)) + BulksLen(Tail(items))

\* The length of the items without the header of the array.
ArrayLenNoHeader(items) == BulksLen(items)

ArrayLen(items) == 1 + Digits(Len(items)) + 2 + BulksLen(items)

\* ReplicationState::id, drawn at random when the master starts.
ReplicationId == "replid"

\* format!("FULLRESYNC {} {}", state.id(), 0), sent as a simple string.
FullResync(id) == <<"+", "FULLRESYNC", id, "0", "CRLF">>

\* NetworkExt::send_rdb of RedisEngine::dump, the empty snapshot of 88
\* bytes: the prefix $<len> CRLF, then the bytes and nothing after them.
SendRdb == <<"$", "88", "CRLF", "EMPTY">>

\* The frames the master writes on a replica socket; text is what is
\* written, size what the master adds to its offset for it.
SyncFrame ==
    [t |-> "sync", id |-> 0, key |-> "", val |-> "", size |-> 0,
     text |-> FullResync(ReplicationId) \o SendRdb]

SetFrame(ev) ==
    [t |-> "set", id |-> ev.id, key |-> ev.key, val |-> ev.val,
     size |-> ArrayLen(<<"SET", ev.key, ev.val>>),
     text |-> <<"SET", ev.key, ev.val>>]

GetAckFrame ==
    [t |-> "getack", id |-> 0, key |-> "", val |-> "",
     size |-> ArrayLen(<<"REPLCONF", "GETACK", "*">>),
     text |-> <<"REPLCONF", "GETACK", "*">>]

\* A broadcast that reaches no connection, which RedisNetwork::broadcast is
\* not.
BroadcastToNone(frame) == wire

\* RedisNetwork::broadcast: the frame is written on every open connection.
Broadcast(frame) ==
    [r \in Replicas |->
        IF r \in DOMAIN offsets THEN Append(wire[r], frame) ELSE wire[r]]

NoEv == [id |-> 0, key |-> "", val |-> "", px |-> FALSE]

\* A connection that is not inside a SET. While it is inside one, "was" is
\* the value the key held when RedisEngine::set was entered.
SetIdle == [pc |-> "idle", ev |-> NoEv, was |-> ""]

\* The loop between two requests: the locals of collect_offsets are gone.
LoopIdle ==
    [pc |-> "select", target |-> 0, required |-> 0, current |-> 0,
     counted |-> {}, pending |-> {}, bytes |-> 0, rounds |-> 0,
     notified |-> FALSE]

\* The WAIT client.  The fields after reply record for the claims: the
\* writes answered OK at submission, the target and the recorded offsets at
\* the dequeue, the replicas the reply counts, the return of collect_offsets
\* that sent it, whether a replica left a round unanswered (the 100 ms
\* passed, or its socket was closed), the WAITs issued.
WaitIdle ==
    [pc |-> "idle", count |-> 0, timer |-> "off", reply |-> -1,
     seen |-> {}, target |-> 0, offs |-> <<>>, counted |-> {},
     how |-> "none", late |-> FALSE, n |-> 0]

\* No PSYNC was handled for a peer yet.
NoPsync ==
    [arg |-> 0, current |-> 0, reply |-> [t |-> "none", offset |-> 0],
     handed |-> FALSE]

\* hist records for the claims: the writes numbered in commit order, those
\* carrying an expiration, those answered OK, the order of the broadcasts,
\* what each replica was sent and applied, whether it ever sent an ACK, the
\* frames it has processed, and
\* the PSYNC it sent: its offset argument, the master offset the handler
\* read, the handler's result and whether serve could hand the socket over.
ReplInit ==
    /\ mstore = [k \in Keys |-> ""]
    /\ setpc = [c \in Conns |-> SetIdle]
    /\ commands = <<>>
    /\ clients = <<>>
    /\ moffset = 0
    /\ offsets = <<>>
    /\ loop = LoopIdle
    /\ wait = WaitIdle
    /\ wire = [r \in Replicas |-> <<>>]
    /\ back = [r \in Replicas |-> <<>>]
    /\ rstat = [r \in Replicas |-> "absent"]
    /\ roffset = [r \in Replicas |-> 0]
    /\ rstore = [r \in Replicas |-> [k \in Keys |-> ""]]
    /\ hist = [writes |-> 0, px |-> {}, okd |-> {}, bcast |-> <<>>,
               sent |-> [r \in Replicas |-> {}],
               applied |-> [r \in Replicas |-> <<>>],
               acked |-> [r \in Replicas |-> FALSE],
               got |-> [r \in Replicas |-> <<>>],
               psync |-> [r \in Replicas |-> NoPsync]]

(***************************************************************************)
(* Client connections: SET.                                                *)
(***************************************************************************)
\* commands::set -> RedisEngine::set, first half: the storage mutation under
\* the storage lock.
SetCommit(c, k, px) ==
    LET v == ValueOf(c) IN
    /\ setpc[c].pc = "idle"
    /\ hist.writes < MaxWrites
    /\ mstore' = [mstore EXCEPT ![k] = v]
    /\ setpc' = [setpc EXCEPT ![c] =
                    [pc |-> "committed",
                     ev |-> [id |-> hist.writes + 1, key |-> k, val |-> v,
                             px |-> px],
                     was |-> mstore[k]]]
    /\ hist' = [hist EXCEPT !.writes = @ + 1,
                            !.px = IF px THEN @ \cup {hist.writes + 1} ELSE @]
    /\ UNCHANGED <<nonReplVars, commands, clients, moffset, offsets, loop,
                   wait, wire, back, rstat, roffset, rstore>>

\* RedisEngine::set, second half: the Write event is sent to the replication
\* queue, and the client is answered OK.
SetEmit(c) ==
    /\ setpc[c].pc = "committed"
    /\ loop.pc # "dead"
    /\ Len(commands) < CommandQueueCap
    /\ commands' = Append(commands, setpc[c].ev)
    /\ setpc' = [setpc EXCEPT ![c] = SetIdle]
    /\ hist' = [hist EXCEPT !.okd = @ \cup {setpc[c].ev.id}]
    /\ UNCHANGED <<nonReplVars, mstore, clients, moffset, offsets, loop, wait,
                   wire, back, rstat, roffset, rstore>>

\* RedisEngine::set when the queue's receiver is gone: "Replication is
\* broken" is answered, the stored value stays.
SetEmitFailed(c) ==
    /\ setpc[c].pc = "committed"
    /\ loop.pc = "dead"
    /\ setpc' = [setpc EXCEPT ![c] = SetIdle]
    /\ UNCHANGED <<nonReplVars, mstore, commands, clients, moffset, offsets,
                   loop, wait, wire, back, rstat, roffset, rstore, hist>>

(***************************************************************************)
(* Client connections: PSYNC and WAIT.                                     *)
(***************************************************************************)
\* The offset argument of PSYNC: -1 as the replica's handshake sends it
\* (NetworkExt::psync), 0, and the length of one propagated SET.
PsyncArgs == {-1, 0, ArrayLen(<<"SET", "k", "x">>)}

\* The role of a node, as ReplicationState::role returns it.
NodeRoles == {"Master", "Replica"}

\* psync: -1 is read as offset 0.
AsOffset(o) == IF o = -1 THEN 0 ELSE o

\* A handler that upgrades whatever offset is requested, which psync is not.
PsyncHandlerAnyOffset(role, o, current) ==
    IF role # "Master"
    THEN [t |-> "NotMaster", offset |-> 0]
    ELSE [t |-> "Upgrade", offset |-> AsOffset(o)]

\* commands::repl::psync: NotMaster off a master, "Replication from non-zero
\* offset is not supported" when the requested offset is not the current
\* one, else Response::Upgrade carrying the requested offset.
PsyncHandler(role, o, current) ==
    IF role # "Master"
    THEN [t |-> "NotMaster", offset |-> 0]
    ELSE IF AsOffset(o) # current
         THEN [t |-> "Unhandled", offset |-> 0]
         ELSE [t |-> "Upgrade", offset |-> AsOffset(o)]

\* psync answering Upgrade on the master, then serve handing the socket to
\* the replication loop with the offset of the upgrade and returning.
Psync(r, o) ==
    LET reply == PsyncHandler("Master", o, moffset) IN
    /\ rstat[r] = "absent"
    /\ loop.pc # "dead"
    /\ reply.t = "Upgrade"
    /\ Len(clients) < ClientQueueCap
    /\ clients' = Append(clients, [node |-> r, offset |-> reply.offset])
    /\ rstat' = [rstat EXCEPT ![r] = "psync"]
    /\ hist' = [hist EXCEPT !.psync[r] =
                    [arg |-> o, current |-> moffset, reply |-> reply,
                     handed |-> TRUE]]
    /\ UNCHANGED <<nonReplVars, mstore, setpc, commands, moffset, offsets,
                   loop, wait, wire, back, roffset, rstore>>

\* psync answering an error, which serve writes as the response; or an
\* upgrade that finds the new-replica queue closed, which serve answers
\* with an error too.  The handshake of the peer fails and its process ends.
PsyncRefused(r, o) ==
    LET reply == PsyncHandler("Master", o, moffset) IN
    /\ rstat[r] = "absent"
    /\ reply.t # "Upgrade" \/ loop.pc = "dead"
    /\ rstat' = [rstat EXCEPT ![r] = "refused"]
    /\ hist' = [hist EXCEPT !.psync[r] =
                    [arg |-> o, current |-> moffset, reply |-> reply,
                     handed |-> FALSE]]
    /\ UNCHANGED <<nonReplVars, mstore, setpc, commands, clients, moffset,
                   offsets, loop, wait, wire, back, roffset, rstore>>

\* commands::repl::wait: a timer task is armed, the request is queued, the
\* handler awaits the reply.
WaitSubmit(n) ==
    /\ wait.pc \in {"idle", "done", "failed"}
    /\ wait.n < MaxWaits
    /\ loop.pc # "dead"
    /\ wait' = [WaitIdle EXCEPT !.pc = "queued", !.count = n,
                   !.timer = "armed", !.seen = hist.okd, !.n = wait.n + 1]
    /\ UNCHANGED <<nonReplVars, mstore, setpc, commands, clients, moffset,
                   offsets, loop, wire, back, rstat, roffset, rstore, hist>>

\* commands::repl::wait when the wait queue's receiver is gone: the reply
\* channel is dropped and the client gets "Receiver dropped".
WaitSubmitFailed(n) ==
    /\ wait.pc \in {"idle", "done", "failed"}
    /\ wait.n < MaxWaits
    /\ loop.pc = "dead"
    /\ wait' = [WaitIdle EXCEPT !.pc = "failed", !.count = n,
                   !.seen = hist.okd, !.n = wait.n + 1]
    /\ UNCHANGED <<nonReplVars, mstore, setpc, commands, clients, moffset,
                   offsets, loop, wire, back, rstat, roffset, rstore, hist>>

\* The timer task of wait: sleep_until, then Notify::notify_waiters, which
\* reaches only a Notified future that exists at that moment, the one of the
\* select! in collect_offsets while an ack round is in progress.
TimerFire ==
    /\ wait.timer = "armed"
    /\ wait' = [wait EXCEPT !.timer = "fired"]
    /\ loop' = [loop EXCEPT !.notified = (loop.pc = "round")]
    /\ UNCHANGED <<nonReplVars, mstore, setpc, commands, clients, moffset,
                   offsets, wire, back, rstat, roffset, rstore, hist>>

(***************************************************************************)
(* The master's replication loop.                                          *)
(***************************************************************************)
\* The count as the client gave it, which collect_offsets does not use.
RequiredAsGiven(count, n) == count

\* collect_offsets: the requested count is clamped to the registered replicas.
Required(count, n) == Min(count, n)

\* Every registered replica, which is not what collect_offsets counts.
ReplicasRegistered(offs, target) == DOMAIN offs

\* collect_offsets, before any round: replicas recorded exactly at the target.
ReplicasAt(offs, target) == {r \in DOMAIN offs : offs[r] = target}

\* Two counts that ack_round does not make: the replicas recorded at or
\* below the target, and those recorded exactly at it.
ReplicasBelow(offs, target) == {r \in DOMAIN offs : offs[r] <= target}

ReplicasExactly(offs, target) == {r \in DOMAIN offs : offs[r] = target}

\* ack_round, at its end: replicas recorded at or past the target.
ReplicasReached(offs, target) == {r \in DOMAIN offs : offs[r] >= target}

\* notify.send(current_count): the WAIT handler's oneshot receives the count
\* of the replicas in who; the handler returns and its timer has no one left
\* to notify.
Answered(w, who, how) ==
    [w EXCEPT !.pc = "done", !.reply = Cardinality(who), !.counted = who,
                 !.how = how, !.timer = "off"]

\* select! branch clients.recv(): the connection is added, the offset the
\* handler passed is recorded, FULLRESYNC and the RDB dump are sent.
Adopt ==
    /\ loop.pc = "select"
    /\ clients # <<>>
    /\ LET m == Head(clients) IN
        /\ offsets' = (m.node :> m.offset) @@ offsets
        /\ wire' = [wire EXCEPT ![m.node] = Append(@, SyncFrame)]
    /\ clients' = Tail(clients)
    /\ UNCHANGED <<nonReplVars, mstore, setpc, commands, moffset, loop, wait,
                   back, rstat, roffset, rstore, hist>>

\* select! branch clients.recv() when the peer has closed its socket and a
\* write of FULLRESYNC or of the dump fails: the connection and the offset
\* are already recorded, the error leaves replication_loop through "?", the
\* loop task ends and its three receivers are dropped.
AdoptFailed ==
    /\ loop.pc = "select"
    /\ clients # <<>>
    /\ rstat[Head(clients).node] = "gone"
    /\ LET m == Head(clients) IN
        offsets' = (m.node :> m.offset) @@ offsets
    /\ loop' = [loop EXCEPT !.pc = "dead"]
    /\ commands' = <<>>
    /\ clients' = <<>>
    /\ wait' = IF wait.pc = "queued"
               THEN [wait EXCEPT !.pc = "failed"] ELSE wait
    /\ UNCHANGED <<nonReplVars, mstore, setpc, moffset, wire, back, rstat,
                   roffset, rstore, hist>>

\* select! branch commands.recv(), a Write without expiration: the SET frame
\* is broadcast and the master offset grows by its length.
HandleWrite ==
    /\ loop.pc = "select"
    /\ commands # <<>>
    /\ ~Head(commands).px
    /\ LET f == SetFrame(Head(commands)) IN
        /\ wire' = Broadcast(f)
        /\ moffset' = moffset + f.size
        /\ hist' = [hist EXCEPT
                      !.bcast = Append(@, f.id),
                      !.sent = [r \in Replicas |->
                                  IF r \in DOMAIN offsets
                                  THEN @[r] \cup {f.id} ELSE @[r]]]
    /\ commands' = Tail(commands)
    /\ UNCHANGED <<nonReplVars, mstore, setpc, clients, offsets, loop, wait,
                   back, rstat, roffset, rstore>>

\* select! branch commands.recv(), a Write with an expiration: the assert!
\* panics, the loop task ends and its three receivers are dropped.
HandleWritePanic ==
    /\ loop.pc = "select"
    /\ commands # <<>>
    /\ Head(commands).px
    /\ loop' = [loop EXCEPT !.pc = "dead"]
    /\ commands' = <<>>
    /\ clients' = <<>>
    /\ wait' = IF wait.pc = "queued"
               THEN [wait EXCEPT !.pc = "failed"] ELSE wait
    /\ UNCHANGED <<nonReplVars, mstore, setpc, moffset, offsets, wire, back,
                   rstat, roffset, rstore, hist>>

\* select! branch waits.recv(): the target is the master offset now.
WaitDequeue ==
    /\ loop.pc = "select"
    /\ wait.pc = "queued"
    /\ loop' = [LoopIdle EXCEPT !.pc = "dequeued", !.target = moffset]
    /\ wait' = [wait EXCEPT !.pc = "serving", !.target = moffset,
                             !.offs = offsets]
    /\ UNCHANGED <<nonReplVars, mstore, setpc, commands, clients, moffset,
                   offsets, wire, back, rstat, roffset, rstore, hist>>

\* collect_offsets up to its first return: clamp, count, reply at once when
\* the count suffices, else enter the round loop.
WaitCheck ==
    /\ loop.pc = "dequeued"
    /\ LET required == Required(wait.count, Cardinality(DOMAIN offsets))
           at == ReplicasAt(offsets, loop.target)
       IN IF Cardinality(at) >= required
          THEN /\ wait' = Answered(wait, at, "check")
               /\ loop' = LoopIdle
          ELSE /\ wait' = wait
               /\ loop' = [loop EXCEPT !.pc = "collect", !.required = required,
                              !.current = Cardinality(at), !.counted = at]
    /\ UNCHANGED <<nonReplVars, mstore, setpc, commands, clients, moffset,
                   offsets, wire, back, rstat, roffset, rstore, hist>>

\* One iteration of the round loop begins: the Notified future is created,
\* ack_round broadcasts REPLCONF GETACK * and adds its length to the offset.
AckBroadcast ==
    /\ loop.pc = "collect"
    /\ loop.rounds < MaxRounds
    /\ wire' = Broadcast(GetAckFrame)
    /\ moffset' = moffset + GetAckFrame.size
    /\ loop' = [loop EXCEPT !.pc = "round", !.bytes = GetAckFrame.size,
                   !.pending = DOMAIN offsets, !.rounds = @ + 1,
                   !.notified = FALSE]
    /\ UNCHANGED <<nonReplVars, mstore, setpc, commands, clients, offsets,
                   wait, back, rstat, roffset, rstore, hist>>

\* The end of ack_round once every replica was read or timed out: the count
\* of replicas at or past the target; enough of them ends collect_offsets.
RoundEnd(offs, pend, w) ==
    IF pend # {}
    THEN /\ loop' = [loop EXCEPT !.pending = pend]
         /\ wait' = w
    ELSE LET reached == ReplicasReached(offs, loop.target) IN
         IF Cardinality(reached) >= loop.required
         THEN /\ loop' = LoopIdle
              /\ wait' = Answered(w, reached, "round")
         ELSE /\ loop' = [loop EXCEPT !.pc = "collect", !.pending = {},
                             !.current = Cardinality(reached),
                             !.counted = reached, !.notified = FALSE]
              /\ wait' = w

\* An offset that counts the bytes of the GETACK twice.
AckedOffsetTwice(ack, bytes) == ack + bytes + bytes

\* The offset recorded from a reply REPLCONF ACK <ack>.
AckedOffset(ack, bytes) == ack + bytes

\* ack_round reads one replica's reply within the 100 ms.
AckRecv(r) ==
    /\ loop.pc = "round"
    /\ r \in loop.pending
    /\ back[r] # <<>>
    /\ offsets' = [offsets EXCEPT ![r] = AckedOffset(Head(back[r]), loop.bytes)]
    /\ back' = [back EXCEPT ![r] = Tail(@)]
    /\ RoundEnd(offsets', loop.pending \ {r}, wait)
    /\ UNCHANGED <<nonReplVars, mstore, setpc, commands, clients, moffset,
                   wire, rstat, roffset, rstore, hist>>

\* ack_round gives up on one replica after the 100 ms: its recorded offset
\* stays.
AckTimeout(r) ==
    /\ loop.pc = "round"
    /\ r \in loop.pending
    /\ rstat[r] # "gone"
    /\ back[r] = <<>>
    /\ RoundEnd(offsets, loop.pending \ {r}, [wait EXCEPT !.late = TRUE])
    /\ UNCHANGED <<nonReplVars, mstore, setpc, commands, clients, moffset,
                   offsets, wire, back, rstat, roffset, rstore, hist>>

\* ack_round reads the socket of a peer that has closed it: receive fails
\* at once, which ack_round treats as it treats the 100 ms passing.
AckFailed(r) ==
    /\ loop.pc = "round"
    /\ r \in loop.pending
    /\ rstat[r] = "gone"
    /\ back[r] = <<>>
    /\ RoundEnd(offsets, loop.pending \ {r}, [wait EXCEPT !.late = TRUE])
    /\ UNCHANGED <<nonReplVars, mstore, setpc, commands, clients, moffset,
                   offsets, wire, back, rstat, roffset, rstore, hist>>

\* select! branch not_interested.notified(): the round is dropped and the
\* count of the last completed round (or of the first check) is sent.
Cancel ==
    /\ loop.pc = "round"
    /\ loop.notified
    /\ wait' = Answered(wait, loop.counted, "cancel")
    /\ loop' = LoopIdle
    /\ UNCHANGED <<nonReplVars, mstore, setpc, commands, clients, moffset,
                   offsets, wire, back, rstat, roffset, rstore, hist>>

(***************************************************************************)
(* A replica: replica::start reading the master's socket.                  *)
(***************************************************************************)
\* The bytes of a string, of which only the number matters here.
BytesOf(str) == [i \in 1..Len(str) |-> "a"]

\* OpenedConnection::receive on the bytes of one frame of the master: the
\* number of bytes from_bytes consumed.
ReceivedBytes(text) ==
    FromBytesAs("array",
                SerializeSeq([i \in DOMAIN text |-> BytesOf(text[i])])).used

\* The texts of the frames the master broadcasts.
FrameTexts ==
    {SetFrame([id |-> 0, key |-> k, val |-> ValueOf(c), px |-> FALSE]).text :
        k \in Keys, c \in Conns} \cup {GetAckFrame.text}

\* What receive consumes for each of them.
Consumed == [text \in FrameTexts |-> ReceivedBytes(text)]

Received(f) == Consumed[f.text]

\* A reply that would carry the offset with this GETACK counted.
AckReplyCounted(offset, count) == offset + count

\* replconf: REPLCONF ACK <state.offset()>, read before the frame is counted.
AckReply(offset, count) == offset

\* ReplicationState::increment_offset.
IncrementOffsetNever(offset, value) == offset

IncrementOffset(offset, value) == offset + value

\* receive_rdb: the FULLRESYNC line and the dump are consumed; the replica's
\* offset starts at what PSYNC returned.
ReplicaSync(r) ==
    /\ rstat[r] = "psync"
    /\ wire[r] # <<>>
    /\ Head(wire[r]).t = "sync"
    /\ rstat' = [rstat EXCEPT ![r] = "streaming"]
    /\ roffset' = [roffset EXCEPT ![r] = 0]
    /\ wire' = [wire EXCEPT ![r] = Tail(@)]
    /\ UNCHANGED <<nonReplVars, mstore, setpc, commands, clients, moffset,
                   offsets, loop, wait, back, rstore, hist>>

\* A SET frame: routed to set, stored without expiration, then the offset
\* grows by the frame's length.
ReplicaApplySet(r) ==
    /\ rstat[r] = "streaming"
    /\ wire[r] # <<>>
    /\ Head(wire[r]).t = "set"
    /\ LET f == Head(wire[r]) IN
        /\ rstore' = [rstore EXCEPT ![r][f.key] = f.val]
        /\ roffset' = [roffset EXCEPT ![r] = IncrementOffset(@, Received(f))]
        /\ hist' = [hist EXCEPT !.applied[r] = Append(@, f.id),
                                !.got[r] = Append(@, f.text)]
    /\ wire' = [wire EXCEPT ![r] = Tail(@)]
    /\ UNCHANGED <<nonReplVars, mstore, setpc, commands, clients, moffset,
                   offsets, loop, wait, back, rstat>>

\* A REPLCONF GETACK * frame: routed to replconf, which answers the offset
\* before this frame; then the offset grows by the frame's length.
ReplicaAck(r) ==
    /\ rstat[r] = "streaming"
    /\ wire[r] # <<>>
    /\ Head(wire[r]).t = "getack"
    /\ back' = [back EXCEPT
                   ![r] = Append(@, AckReply(roffset[r],
                                             Received(Head(wire[r]))))]
    /\ roffset' = [roffset EXCEPT
                      ![r] = IncrementOffset(@, Received(Head(wire[r])))]
    /\ hist' = [hist EXCEPT !.acked[r] = TRUE,
                            !.got[r] = Append(@, Head(wire[r]).text)]
    /\ wire' = [wire EXCEPT ![r] = Tail(@)]
    /\ UNCHANGED <<nonReplVars, mstore, setpc, commands, clients, moffset,
                   offsets, loop, wait, rstat, rstore>>

\* A peer closes its socket, or its process ends: during the handshake
\* after PSYNC was sent, or while it reads the replication stream.
ReplicaDrop(r) ==
    /\ rstat[r] \in {"psync", "streaming"}
    /\ rstat' = [rstat EXCEPT ![r] = "gone"]
    /\ UNCHANGED <<nonReplVars, mstore, setpc, commands, clients, moffset,
                   offsets, loop, wait, wire, back, roffset, rstore, hist>>

ReplNext ==
    \/ \E c \in Conns, k \in Keys, px \in BOOLEAN : SetCommit(c, k, px)
    \/ \E c \in Conns : SetEmit(c)
    \/ \E c \in Conns : SetEmitFailed(c)
    \/ \E r \in Joining, o \in PsyncArgs : Psync(r, o)
    \/ \E r \in Joining, o \in PsyncArgs : PsyncRefused(r, o)
    \/ \E n \in Counts : WaitSubmit(n)
    \/ \E n \in Counts : WaitSubmitFailed(n)
    \/ TimerFire
    \/ Adopt
    \/ AdoptFailed
    \/ HandleWrite
    \/ HandleWritePanic
    \/ WaitDequeue
    \/ WaitCheck
    \/ AckBroadcast
    \/ \E r \in Replicas : AckRecv(r)
    \/ \E r \in Replicas : AckTimeout(r)
    \/ \E r \in Replicas : AckFailed(r)
    \/ Cancel
    \/ \E r \in Replicas : ReplicaSync(r)
    \/ \E r \in Replicas : ReplicaApplySet(r)
    \/ \E r \in Replicas : ReplicaAck(r)
    \/ \E r \in Replicas : ReplicaDrop(r)

(***************************************************************************)
(* The apply loop of a replica: replica::start after the handshake.        *)
(***************************************************************************)
\* mpsc::channel(128) of create_engine: the Write events of the replica's
\* own engine, which replica::start receives as acks.
EngineQueueCap == 128

\* What the master's socket may deliver as an array of strings.
MasterFrames ==
    {<<"SET", "k", "x">>, <<"SET", "k">>, <<"REPLCONF", "GETACK", "*">>,
     <<"REPLCONF", "GETACK">>, <<"REPLCONF", "capa", "psync2">>,
     <<"PING">>, <<"DEL", "k">>, <<>>}

\* One SET frame after the other.
SetFrames == {<<"SET", "k", "x">>}

\* String::to_lowercase on the command names above.
ToLowercase(name) ==
    CASE name = "SET" -> "set"
      [] name = "REPLCONF" -> "replconf"
      [] name = "PING" -> "ping"
      [] name = "DEL" -> "del"
      [] OTHER -> name

\* Request::from_command_line: the first string, lowercased, is the
\* command; no first string is an error.
FromCommandLine(f) ==
    IF f = <<>>
    THEN [ok |-> FALSE, command |-> "", args |-> <<>>]
    ELSE [ok |-> TRUE, command |-> ToLowercase(Head(f)), args |-> Tail(f)]

\* The router of replica::start.
ApplyRoutes == {"set", "replconf", "ping"}

\* The responses a handler or the router can come to: Response::Empty, or
\* Response::Raw with its text and, in an ACK, the number it ends with.
Empty == [t |-> "empty", text |-> <<>>, ack |-> -1]

\* RedisError::into_response: an error line.
ErrorResponse(msg) == [t |-> "raw", text |-> <<"-", msg>>, ack |-> -1]

\* flag!(GetAck, "GETACK"): the argument after the first GETACK, if any.
HasGetAck(args) ==
    \E i \in DOMAIN args : args[i] = "GETACK" /\ i + 1 \in DOMAIN args

\* replconf: REPLCONF ACK <state.offset()>.
ReplconfAck(offset) ==
    [t |-> "raw", text |-> <<"REPLCONF", "ACK">>, ack |-> offset]

\* router.oneshot(request).await.into_response(): the router finds the
\* handler by name, the handler's extractors bind the arguments, and an
\* error of either is rendered as an error line.
Dispatch(req, offset) ==
    IF req.command \notin ApplyRoutes THEN ErrorResponse("Unknown command")
    ELSE CASE req.command = "set" ->
                 IF Len(req.args) >= 2 THEN Empty
                 ELSE ErrorResponse("Something happened")
           [] req.command = "replconf" ->
                 IF HasGetAck(req.args) THEN ReplconfAck(offset)
                 ELSE ErrorResponse("Something happened")
           [] OTHER -> Empty

\* What receive consumed for a frame.
FrameCount == [f \in MasterFrames \ {<<>>} |-> ReceivedBytes(f)]

ApplyIdle ==
    [pc |-> "select", offset |-> 0, acks |-> 0, store |-> "", frames |-> 0,
     last |-> <<>>, sent |-> Empty]

ApplyInit == apply = ApplyIdle

\* select! branch network.receive: the request is built (an error leaves
\* start through "?"), routed, the response is written to the master if it
\* is Raw, and the offset grows by the bytes of the frame.  The set handler
\* stores the value and sends a Write event to the engine's queue; with the
\* queue full the send does not return, and the loop is inside this branch.
ApplyFrame(f) ==
    /\ apply.pc = "select"
    /\ LET req == FromCommandLine(f)
           response == Dispatch(req, apply.offset)
           sets == req.ok /\ req.command = "set" /\ response = Empty
       IN apply' =
            IF ~req.ok
            THEN [apply EXCEPT !.pc = "ended", !.frames = @ + 1, !.last = f,
                               !.sent = Empty]
            ELSE IF sets /\ apply.acks >= EngineQueueCap
            THEN [apply EXCEPT !.pc = "blocked", !.frames = @ + 1,
                               !.last = f, !.sent = Empty,
                               !.store = req.args[2]]
            ELSE [apply EXCEPT
                    !.frames = @ + 1, !.last = f, !.sent = response,
                    !.store = IF sets THEN req.args[2] ELSE @,
                    !.acks = IF sets THEN @ + 1 ELSE @,
                    !.offset = IncrementOffset(@, FrameCount[f])]
    /\ UNCHANGED nonApplyVars

\* select! branch acks.recv(): one Write event of the replica's own engine
\* is taken and dropped.
ApplyRecvAck ==
    /\ apply.pc = "select"
    /\ apply.acks > 0
    /\ apply' = [apply EXCEPT !.acks = @ - 1]
    /\ UNCHANGED nonApplyVars

NextApply ==
    \/ \E f \in MasterFrames : apply.frames < MaxFrames /\ ApplyFrame(f)
    \/ ApplyRecvAck

NextApplyQueue ==
    \/ \E f \in SetFrames : apply.frames < MaxSets /\ ApplyFrame(f)
    \/ ApplyRecvAck

(***************************************************************************)
(* The specifications.                                                     *)
(***************************************************************************)
Init ==
    /\ StreamInit /\ BlockInit /\ StoreInit /\ ConnInit /\ ReplInit
    /\ CodecInit /\ ApplyInit

SpecStream == Init /\ [][NextStream]_vars

SpecQuery == Init /\ [][NextQuery]_vars

SpecBlock == Init /\ [][NextBlock]_vars

SpecStore == Init /\ [][NextStore]_vars

SpecConn == Init /\ [][NextConn]_vars

\* A replica node, started on a db file.
InitReplica ==
    /\ StreamInit /\ BlockInit /\ ReplicaStoreInit /\ ConnInit /\ ReplInit
    /\ CodecInit /\ ApplyInit

SpecCodec == Init /\ [][NextCodec]_vars

SpecReplica == InitReplica /\ [][NextReplica]_vars

SpecApply == Init /\ [][NextApply]_vars

SpecApplyQueue == Init /\ [][NextApplyQueue]_vars

Next == ReplNext

Spec == Init /\ [][Next]_vars

\* Every spawned task that can run does run (the tokio runtime) and select!
\* picks among its ready branches at random.  Nothing is assumed of the
\* clients, which may send nothing more, nor of the two timers, which may
\* take arbitrarily long.
Fairness ==
    /\ \A c \in Conns : WF_vars(SetEmit(c)) /\ WF_vars(SetEmitFailed(c))
    /\ WF_vars(Adopt)
    /\ WF_vars(HandleWrite)
    /\ WF_vars(HandleWritePanic)
    /\ WF_vars(WaitDequeue)
    /\ WF_vars(WaitCheck)
    /\ WF_vars(AckBroadcast)
    /\ WF_vars(Cancel)
    /\ \A r \in Joining :
          /\ WF_vars(AckRecv(r))
          /\ WF_vars(AckFailed(r))
          /\ WF_vars(ReplicaSync(r))
          /\ WF_vars(ReplicaApplySet(r))
          /\ WF_vars(ReplicaAck(r))

FairSpec == Spec /\ Fairness

\* Two replicas that send PSYNC ? -1 as NetworkExt::psync does, one client
\* connection that writes without expiration and waits, sockets that stay
\* open.
NextWait ==
    \/ \E k \in Keys : SetCommit("c1", k, FALSE)
    \/ SetEmit("c1")
    \/ \E r \in Replicas : Psync(r, -1)
    \/ \E n \in Counts : WaitSubmit(n)
    \/ TimerFire
    \/ Adopt
    \/ HandleWrite
    \/ WaitDequeue
    \/ WaitCheck
    \/ AckBroadcast
    \/ \E r \in Replicas : AckRecv(r)
    \/ \E r \in Replicas : AckTimeout(r)
    \/ Cancel
    \/ \E r \in Replicas : ReplicaSync(r)
    \/ \E r \in Replicas : ReplicaApplySet(r)
    \/ \E r \in Replicas : ReplicaAck(r)

SpecWait == Init /\ [][NextWait]_vars

(***************************************************************************)
(* Claims about XADD, checked under SpecStream.                            *)
(***************************************************************************)
Greatest(S) == CHOOSE m \in S : \A x \in S : IdLe(x, m)

XaddDone == xadd_out.status = "ok"

\* C8: the ids returned by successful appends are strictly increasing,
\* last_id is always the greatest id stored, and an append whose allocated
\* id does not strictly exceed last_id inserts nothing.
C8_XaddMonotone ==
    /\ [](entries # {} => last_id = Greatest(entries))
    /\ [][(entries_added' # entries_added) => IdLess(last_id, last_id')]_vars

\* C9, as first stated: a successful XADD <ms>-* returns <ms>-(last_id.seq+1)
\* when ms = last_id.ms and <ms>-0 otherwise, and a successful XADD with an
\* explicit <ms>-<seq> returns exactly <ms>-<seq>.
ExpectedAuto(prev, ms) == <<ms, IF ms = prev[1] THEN prev[2] + 1 ELSE 0>>

C9_AutoSeqAnyNumber ==
    XaddDone =>
        /\ xadd_out.arg.form = "auto" =>
               xadd_out.id = ExpectedAuto(xadd_out.prev, xadd_out.arg.ms)
        /\ xadd_out.arg.form = "explicit" =>
               xadd_out.id = <<xadd_out.arg.ms, xadd_out.arg.seq>>

\* C9, amended: the same for every ms below u64::MAX and every explicit
\* sequence below u64::MAX (the number u64::MAX is the allocation sentinel).
C9_AutoSeq ==
    XaddDone =>
        /\ (xadd_out.arg.form = "auto" /\ xadd_out.arg.ms < U64Max) =>
               xadd_out.id = ExpectedAuto(xadd_out.prev, xadd_out.arg.ms)
        /\ (/\ xadd_out.arg.form = "explicit"
            /\ xadd_out.arg.ms < U64Max
            /\ xadd_out.arg.seq < U64Max) =>
               xadd_out.id = <<xadd_out.arg.ms, xadd_out.arg.seq>>

\* Two successive XADD 2-* into an empty stream returned 2-0 and then 2-1.
C9_Witness ==
    /\ XaddDone
    /\ xadd_out.arg = [form |-> "auto", ms |-> 2]
    /\ xadd_out.prev = <<2, 0>>
    /\ xadd_out.id = <<2, 1>>
    /\ entries = {<<2, 0>>, <<2, 1>>}
    /\ entries_added = 2

\* C10: no stream ever holds an entry 0-0, and XADD 0-0 is answered with
\* the "must be greater than 0-0" error.
C10_NoZeroEntry ==
    /\ <<0, 0>> \notin entries
    /\ xadd_out.arg = [form |-> "explicit", ms |-> 0, seq |-> 0] =>
           (xadd_out.status = "err" /\ xadd_out.err = ErrZero)

\* XADD 0-* was allocated 0-1, and a later XADD 0-0 was refused.
C10_Witness ==
    /\ xadd_out.arg = [form |-> "explicit", ms |-> 0, seq |-> 0]
    /\ xadd_out.err = ErrZero
    /\ entries = {<<0, 1>>}

(***************************************************************************)
(* Claims about write propagation and WAIT, checked under Spec, and under  *)
(* FairSpec where the claim is that something eventually happens.          *)
(***************************************************************************)
Range(s) == {s[i] : i \in DOMAIN s}

QueuedIds == {commands[i].id : i \in DOMAIN commands}

\* The writes without expiration answered OK so far.
Accepted == hist.okd \ hist.px

\* A WAIT with count >= 1 was served while r was the one registered replica.
ServedWithOnly(r) ==
    /\ wait.pc = "done"
    /\ wait.count >= 1
    /\ DOMAIN wait.offs = {r}

\* C1: every replica counted in a WAIT reply was sent the SET frame of every
\* write that had been answered OK before that WAIT was submitted.
C1_CountedHaveWrites ==
    wait.pc = "done" =>
        \A r \in wait.counted : (wait.seen \ hist.px) \subseteq hist.sent[r]

\* C2: SET frames are broadcast in the order in which the writes committed
\* in the master's storage, also for writes of different connections.
C2_BroadcastInCommitOrder ==
    \A i, j \in DOMAIN hist.bcast : i < j => hist.bcast[i] < hist.bcast[j]

\* C3: with a replica attached, every accepted SET k v is eventually applied
\* on it.  Stated so that a finite run refutes it: an accepted write that no
\* replica was sent yet is still waiting in the replication queue, for
\* otherwise nothing can deliver it any more.
C3_AcceptedStaysDeliverable ==
    (\E r \in Replicas : r \in DOMAIN offsets /\ rstat[r] = "streaming") =>
        \A id \in Accepted : id \in Range(hist.bcast) \/ id \in QueuedIds

\* C4: once the timer of a WAIT has fired the loop runs no further ack round
\* for it.  A round in progress with the timer fired must have the cancel
\* signal pending, whenever the timer fired.
C4_FiredTimerStopsRounds ==
    (wait.timer = "fired" /\ loop.pc = "round") => loop.notified

C6_ImmediateReply ==
    [][(loop.pc = "dequeued" /\ loop'.pc # "dequeued") =>
        LET n == Cardinality(DOMAIN offsets)
            at == {r \in DOMAIN offsets : offsets[r] = loop.target}
        IN  Cardinality(at) >= Min(wait.count, n) =>
                /\ wait'.pc = "done"
                /\ wait'.reply = Cardinality(at)
                /\ (n = 0 => wait'.reply = 0)
                /\ loop'.pc = "select"
                /\ wire' = wire
                /\ moffset' = moffset
                /\ offsets' = offsets]_vars

\* A WAIT asking for more replicas than are registered, answered at once.
C6_Witness ==
    /\ wait.pc = "done"
    /\ wait.how = "check"
    /\ wait.count > Cardinality(DOMAIN wait.offs)
    /\ wait.offs # <<>>
    /\ wait.reply = Cardinality(DOMAIN wait.offs)

\* A replica that owes the master no reply to an earlier GETACK.
NothingOwed(r) ==
    /\ back[r] = <<>>
    /\ \A i \in DOMAIN wire[r] : wire[r][i].t # "getack"

\* C7: a WAIT with count >= 1, dequeued after an accepted SET while one
\* replica is registered, is answered 1, unless its timer fires first or the
\* replica lets the 100 ms of a round pass.
C7_ResponsiveReplicaCounted ==
    \A r \in Joining :
        (/\ loop.pc = "dequeued"
         /\ wait.count >= 1
         /\ wait.seen # {}
         /\ DOMAIN offsets = {r}
         /\ NothingOwed(r))
        ~> \/ wait.pc = "done" /\ wait.reply = 1
           \/ wait.timer = "fired"
           \/ wait.late

C7_Witness ==
    /\ ServedWithOnly(1)
    /\ wait.seen # {}
    /\ wait.target > wait.offs[1]
    /\ ~wait.late
    /\ wait.how = "round"
    /\ wait.reply = 1

(***************************************************************************)
(* XRANGE.                                                                 *)
(***************************************************************************)
\* The inclusive bounds an XRANGE argument stands for: "-" the least id,
\* "+" the greatest, a bare ms the first id of that millisecond as a start
\* and the last one as an end, "<ms>-<seq>" itself.
BoundMeant(arg, end) ==
    CASE arg.form = "minus" -> StreamIdMIN
      [] arg.form = "plus"  -> StreamIdMAX
      [] arg.form = "bare"  -> <<arg.ms, IF end THEN U64Max ELSE 0>>
      [] OTHER              -> <<arg.ms, arg.seq>>

XrangeAsked ==
    /\ xq_out.cmd = "xrange"
    /\ xq_out.a.form \in {"minus", "bare", "explicit"}
    /\ xq_out.b.form \in {"plus", "bare", "explicit"}

XrangeStartNotAfterEnd ==
    IdLe(BoundMeant(xq_out.a, FALSE), BoundMeant(xq_out.b, TRUE))

\* C11: XRANGE s start end answers, in ascending id order, exactly the
\* entries whose id lies between start and end, both included.
C11_XrangeInclusive ==
    XrangeAsked =>
        /\ xq_out.status = "ok"
        /\ xq_out.ids =
             Ascending({id \in entries :
                          /\ IdLe(BoundMeant(xq_out.a, FALSE), id)
                          /\ IdLe(id, BoundMeant(xq_out.b, TRUE))})

\* The same statement for the requests whose start is not after their end.
XrangeInclusiveOrdered ==
    (XrangeAsked /\ XrangeStartNotAfterEnd) => C11_XrangeInclusive

(***************************************************************************)
(* XREAD.                                                                  *)
(***************************************************************************)
\* The id the finished request gave for key k.
IdGiven(k) ==
    reader.ids[CHOOSE i \in 1..Len(reader.keys) : reader.keys[i] = k]

Requested(k) == \E i \in 1..Len(reader.keys) : reader.keys[i] = k

Listed(k) == \E j \in 1..Len(reader.out) : reader.out[j].key = k

StrictlyAscending(ids) ==
    \A i \in 1..Len(ids) - 1 : IdLess(ids[i], ids[i + 1])

XreadAnswered == reader.pc = "done" /\ reader.reply = "array"

XreadAfterStart(o) ==
    IdGiven(o.key).form # "dollar" =>
        /\ o.ids # <<>>
        /\ StrictlyAscending(o.ids)
        /\ \A i \in 1..Len(o.ids) :
              IdLess(StreamReadStartFromStr(IdGiven(o.key)), o.ids[i])
        /\ reader.countf # "" => Len(o.ids) <= reader.countn

\* C12: XREAD with an explicit start id returns, per stream, only entries
\* whose id is strictly greater than that id, in ascending order, at most
\* COUNT of them, and lists no stream without such an entry.
C12_XreadAfterStart ==
    XreadAnswered =>
        \A j \in 1..Len(reader.out) : XreadAfterStart(reader.out[j])

\* The same statement for the requests that spell the flag "count".
XreadAfterStartLowerCase ==
    reader.countf # "COUNT" => C12_XreadAfterStart

\* A finished XREAD block <t> STREAMS .. $ .. (the flag spelled as the
\* handler looks for it, every id "$").
BlockedOnTail ==
    /\ reader.pc = "done"
    /\ reader.blockf = "block"
    /\ \A i \in 1..Len(reader.ids) : reader.ids[i].form = "dollar"

FreshFor(k) == {id \in StreamIds : <<k, id>> \in reader.fresh}

NothingAppended == \A k \in StreamKeys : Requested(k) => FreshFor(k) = {}

\* No XADD on a requested stream ran from its commit to its end while the
\* request was being served.
NothingTold == \A e \in reader.told : ~Requested(e[1])

\* A blocking XREAD on "$" during which nothing was appended answers the
\* null array.
NullWhenNothingAppended ==
    (BlockedOnTail /\ NothingAppended) => reader.reply = "null"

\* C13: a blocking XREAD on "$" answers the null array only when nothing
\* was appended: an XADD that commits after the request began and before
\* the timeout is answered, no wake-up is lost.
C13_NoLostWakeup ==
    (BlockedOnTail /\ reader.reply = "null") => NothingTold

\* C14: "$" is the tail of the stream when the request began: what a
\* blocking XREAD answers for it was appended after that moment, and what
\* was appended after it is answered in full, up to COUNT, on every
\* requested stream.
C14_DollarIsTail ==
    (BlockedOnTail /\ reader.reply = "array") =>
        /\ \A j \in 1..Len(reader.out) :
              LET o == reader.out[j] IN
              /\ \A i \in 1..Len(o.ids) : o.ids[i] \in FreshFor(o.key)
              /\ o.ids = Take(Ascending(reader.due[o.key]), reader.count)
        /\ \A k \in StreamKeys :
              (Requested(k) /\ ~Listed(k)) => reader.due[k] = {}

ExpiringRead ==
    /\ sout.cmd \in {"get", "type", "xadd", "xrange"}
    /\ sout.mem.pre.kind # "none"
    /\ sout.mem.pre.exp.some

\* C16: get, get_mut and get_or_insert called after the expiration of an
\* entry report it absent (get_or_insert installs factory(), without
\* expiration) and leave no expired entry; called at or before it they
\* report the value and leave the entry in place.
C16_LazyExpiration ==
    ExpiringRead =>
        LET m == sout.mem IN
        IF m.now > m.pre.exp.at
        THEN /\ m.op \in {"get", "get_mut"} =>
                  m.found = Absent /\ m.post = Absent
             /\ m.op = "get_or_insert" =>
                  m.found = StreamEntry(0) /\ m.post = StreamEntry(0)
        ELSE m.found = m.pre /\ m.post = m.pre

C16_Witness ==
    /\ ExpiringRead
    /\ sout.mem.op = "get_or_insert"
    /\ sout.mem.now > sout.mem.pre.exp.at

\* C17: SET k v PX ms stores the expiration now + ms, in whatever letter
\* case the PX flag is written.
C17_PxAnyCase ==
    (sout.cmd = "set" /\ sout.px.word # "") =>
        data[sout.key].exp = ExpAt(sout.now + sout.px.n)

\* The same statement for the flag spelled "px".
PxLowerCase ==
    (sout.cmd = "set" /\ sout.px.word = "px") =>
        data[sout.key].exp = ExpAt(sout.now + sout.px.n)

\* C18: KEYS with a pattern other than * is an error, and KEYS * answers
\* exactly the keys that are present and not expired.
C18_KeysLive ==
    sout.cmd = "keys" =>
        IF sout.pattern # "*" THEN sout.err
        ELSE /\ ~sout.err
             /\ sout.reply =
                  {key \in StoreKeys :
                      /\ data[key].kind # "none"
                      /\ ~IsExpired(data[key].exp, sout.now)}

(***************************************************************************)
(* One connection.                                                         *)
(***************************************************************************)
\* C19: on one connection the responses are written in the order of the
\* requests, and the handler of a request has returned (and its response
\* is written) before the next request is decoded.
C19_OneRequestAtATime ==
    /\ \A i, j \in DOMAIN clog :
          (i < j /\ clog[i].ev = "write" /\ clog[j].ev = "write")
              => clog[i].req < clog[j].req
    /\ \A i, j \in DOMAIN clog :
          (i < j /\ clog[i].ev = "decode" /\ clog[j].ev = "decode"
                 /\ clog[i].kind = "cmd")
              => \E d, w \in (i + 1)..(j - 1) :
                    /\ d < w
                    /\ clog[d] = [clog[i] EXCEPT !.ev = "done"]
                    /\ clog[w] = [clog[i] EXCEPT !.ev = "write"]
    /\ \A i, j \in DOMAIN clog :
          (i < j /\ clog[i].ev = "decode" /\ clog[j].ev = "decode")
              => clog[i].req < clog[j].req

\* A request was answered, the next one is in its handler, and a third one,
\* read along with it, waits in buf.
C19_Witness ==
    /\ \E i \in DOMAIN clog : clog[i].ev = "write"
    /\ conn.pc = "handling"
    /\ FromBytes(cbuf)

(***************************************************************************)
(* The replica's loop.                                                     *)
(***************************************************************************)
IsSet(f) == f.t = "set"

\* The ids of the SET frames of a sequence of frames, in its order.
SetIdsOf(w) ==
    [i \in 1..Len(SelectSeq(w, IsSet)) |-> SelectSeq(w, IsSet)[i].id]

IsSuffix(a, b) ==
    Len(a) <= Len(b) /\ a = SubSeq(b, Len(b) - Len(a) + 1, Len(b))

\* What a replica has applied, followed by what it has still to read, is
\* what was written on its connection, in that order.
ReplicaInOrder ==
    \A r \in Replicas :
        IsSuffix(hist.applied[r] \o SetIdsOf(wire[r]), hist.bcast)

\* A step in which replica r takes a frame off its connection.
Consumes(r) ==
    /\ rstat[r] = "streaming"
    /\ wire[r] # <<>>
    /\ wire'[r] = Tail(wire[r])

\* One frame per step, the first one; it is applied if it is a SET and
\* its length is added to the offset in the same step.
ReplicaCountsEachFrame ==
    \A r \in Replicas :
        IF Consumes(r)
        THEN /\ roffset'[r] = roffset[r] + Head(wire[r]).size
             /\ hist'.applied[r] =
                  IF IsSet(Head(wire[r]))
                  THEN Append(hist.applied[r], Head(wire[r]).id)
                  ELSE hist.applied[r]
        ELSE /\ hist'.applied[r] = hist.applied[r]
             /\ rstat[r] = "streaming" => roffset'[r] = roffset[r]

\* C20: the replica applies the frames of its master in exactly the order
\* it received them, one at a time, and has counted a frame in its offset
\* before it decodes the next.
C20_ReplicaInOrder == [][ReplicaInOrder' /\ ReplicaCountsEachFrame]_vars

\* A replica that has applied every write, with both frames counted.
C20_Witness ==
    \E r \in Replicas :
        /\ Len(hist.applied[r]) = MaxWrites
        /\ roffset[r] >= ArrayLen(<<"SET", "k", "x">>)
                           + ArrayLen(<<"SET", "k", "yy">>)

(***************************************************************************)
(* PSYNC and the registration of replicas.                                 *)
(***************************************************************************)
\* The peers waiting in the new-replica queue.
QueuedPeers == {clients[i].node : i \in DOMAIN clients}

\* The offset a PSYNC argument asks for.
Asked(arg) == IF arg = -1 THEN 0 ELSE arg

FullResyncThenDump ==
    <<"+", "FULLRESYNC", ReplicationId, "0", "CRLF",
      "$", "88", "CRLF", "EMPTY">>

MasterOnly == {"set", "xadd", "psync", "wait"}

\* The last command removed an entry whose expiration had passed.
RemovedExpired(pre, post, now) ==
    /\ post = Absent
    /\ pre.exp.some
    /\ now > pre.exp.at

Carried(f) == IF f.kind = "array" THEN f.items ELSE f.s

\* C24: decoding all the bytes of an encoded value returns that value and
\* reports every byte consumed; decoding a proper prefix of them fails and
\* consumes nothing.
C24_RoundTrip ==
    resp_out.t # "none" =>
        IF resp_out.n = Len(resp_bytes)
        THEN /\ resp_out.t = "ok"
             /\ resp_out.used = Len(resp_bytes)
             /\ resp_in.kind \in {"simple", "bulk", "array"} =>
                   resp_out.val = Carried(resp_in)
        ELSE /\ resp_out.t = "err"
             /\ resp_out.used = 0

(***************************************************************************)
(* The offsets of the master and of a replica.                             *)
(***************************************************************************)
\* The number of bytes to_bytes makes of an array of these strings.
EncodedLen(strs) ==
    Len(SerializeSeq([i \in DOMAIN strs |-> BytesOf(strs[i])]))

\* The loop broadcast the SET frame of the write at the head of its queue.
SetBroadcast == Len(hist'.bcast) = Len(hist.bcast) + 1

\* The loop began an ack round, which broadcasts REPLCONF GETACK *.
GetAckBroadcast == loop.pc = "collect" /\ loop'.pc = "round"

RECURSIVE TotalLen(_)
TotalLen(texts) ==
    IF texts = <<>> THEN 0
    ELSE EncodedLen(Head(texts)) + TotalLen(Tail(texts))

\* The offset FULLRESYNC announced to every replica.
HandshakeOffset == 0

\* Replica r has answered a REPLCONF GETACK * in this step.
Replies(r) == Len(back'[r]) = Len(back[r]) + 1

\* C26: the offset of a replica that has finished its handshake is the
\* handshake offset plus the encoded lengths of the frames it has processed;
\* its reply to REPLCONF GETACK * carries the offset as it was before that
\* frame, whose length is in the offset once the reply is sent, and nothing
\* else is added for the reply.
C26_ReplicaOffset ==
    [][\A r \in Replicas :
        /\ rstat'[r] = "streaming" =>
              roffset'[r] = HandshakeOffset + TotalLen(hist'.got[r])
        /\ Replies(r) =>
              /\ back'[r][Len(back'[r])] =
                    HandshakeOffset + TotalLen(hist.got[r])
              /\ hist'.got[r] =
                    Append(hist.got[r], <<"REPLCONF", "GETACK", "*">>)
              /\ roffset'[r] =
                    roffset[r] + EncodedLen(<<"REPLCONF", "GETACK", "*">>)
      ]_vars

\* A replica that has processed a SET and a REPLCONF GETACK *, whose reply
\* the master has not read yet: the reply carries the length of the SET.
C26_Witness ==
    /\ rstat[1] = "streaming"
    /\ Len(hist.got[1]) = 2
    /\ hist.got[1][2] = <<"REPLCONF", "GETACK", "*">>
    /\ back[1] = <<EncodedLen(hist.got[1][1])>>
    /\ roffset[1] = back[1][1] + EncodedLen(<<"REPLCONF", "GETACK", "*">>)

\* The loop registers replica r in this step.
Registers(r) == r \notin DOMAIN offsets /\ r \in DOMAIN offsets'

\* C27: the offset the loop records for a replica it registers is the
\* master offset of that moment.
C27_RegisteredAtCurrentOffset ==
    [][\A r \in Replicas : Registers(r) => offsets'[r] = moffset']_vars

(***************************************************************************)
(* WAIT: the target and the counts.                                        *)
(***************************************************************************)
\* The replicas whose recorded offset has reached the target.
AtOrPast(target) == {r \in DOMAIN offsets : offsets[r] >= target}

\* The loop takes a wait request off its queue in this step.
Dequeues == loop.pc = "select" /\ loop'.pc = "dequeued"

\* The loop makes the first comparison of collect_offsets in this step.
FirstCheck == loop.pc = "dequeued" /\ loop'.pc # "dequeued"

\* C28: the target of a wait request is the master offset when the loop
\* dequeues it; the number first compared with the clamped count is the
\* number of replicas recorded at or past the target: when it suffices it
\* is the reply, and when it does not no reply is sent and it is the count
\* the rounds start from.
C28_FirstCount ==
    [][/\ Dequeues => loop'.target = moffset /\ wait'.target = moffset
       /\ FirstCheck =>
             LET n == Cardinality(AtOrPast(loop.target))
                 clamped == Min(wait.count, Cardinality(DOMAIN offsets))
             IN  IF n >= clamped
                 THEN wait'.pc = "done" /\ wait'.reply = n
                 ELSE /\ wait'.pc = "serving"
                      /\ loop'.pc = "collect"
                      /\ loop'.current = n]_vars

\* A WAIT 1 answered 1 at once on a master whose offset is not 0.
C28_Witness ==
    /\ wait.pc = "done"
    /\ wait.how = "check"
    /\ wait.count = 1
    /\ wait.reply = 1
    /\ wait.target > 0

\* WAIT is answered in this step after at least one round was started.
RepliesAfterRound ==
    /\ wait.pc = "serving"
    /\ wait'.pc = "done"
    /\ wait'.how \in {"round", "cancel"}

\* C29: a reply to WAIT sent after at least one round was started, at the
\* end of a round or on cancel, carries the number of replicas whose
\* recorded offset is at or past the target when the reply is sent.
C29_ReplyCountsReached ==
    [][RepliesAfterRound =>
         wait'.reply = Cardinality(ReplicasReached(offsets', loop.target))]_vars

(***************************************************************************)
(* The replication loop and failing sockets.                               *)
(***************************************************************************)
\* The loop stopped in this step.
LoopStops == loop.pc # "dead" /\ loop'.pc = "dead"

\* C30: the replication loop does not stop on a failing replica socket:
\* neither in the step that registers a new replica, whose FULLRESYNC and
\* dump it writes, nor in a step that broadcasts a frame; and a peer once in
\* the connection table stays in it.
C30_LoopSurvivesSocketFailure ==
    [][/\ (\E r \in Replicas : Registers(r)) => ~LoopStops
       /\ (SetBroadcast \/ GetAckBroadcast) => ~LoopStops
       /\ DOMAIN offsets \subseteq DOMAIN offsets']_vars

(***************************************************************************)
(* Writes with an expiration and the replication loop.                     *)
(***************************************************************************)
\* The loop takes a Write event with an expiration off its queue.
TakesExpiringWrite ==
    /\ loop.pc = "select"
    /\ commands # <<>>
    /\ Head(commands).px
    /\ commands' # commands
    /\ offsets' = offsets

\* C31: no Write event with an expiration is ever in the replication queue,
\* and the loop does not stop on taking a Write event.
C31_NoExpiringWriteReachesLoop ==
    [][/\ \A i \in DOMAIN commands' : ~commands'[i].px
       /\ TakesExpiringWrite => ~LoopStops]_vars

(***************************************************************************)
(* Claims about the apply loop of a replica, checked under SpecApply and   *)
(* SpecApplyQueue.                                                         *)
(***************************************************************************)
\* The loop has taken a frame of its master in this step.
FrameTaken == apply'.frames = apply.frames + 1

\* The frame asks for an acknowledgement.
IsGetAck(f) == Len(f) >= 3 /\ f[1] = "REPLCONF" /\ f[2] = "GETACK"

\* C32: whatever frame the replica takes from its master, it writes nothing
\* to the master but REPLCONF ACK in reply to a GETACK, its loop goes on,
\* and its offset grows by the encoded length of the frame.
C32_NothingBackButAck ==
    [][FrameTaken =>
         /\ apply'.sent.t = "raw" =>
               /\ IsGetAck(apply'.last)
               /\ apply'.sent.text = <<"REPLCONF", "ACK">>
         /\ apply'.pc = "select"
         /\ apply'.offset = apply.offset + EncodedLen(apply'.last)]_vars

\* C35: the send of the set handler never waits on a full engine queue,
\* however many SET frames arrive and whichever ready branch the loop takes.
C35_ApplyNeverBlocks == apply.pc # "blocked"

(***************************************************************************)
(* XREAD woken with nothing to return, checked under SpecBlock.            *)
(***************************************************************************)
\* The loop after the wait ends in this step with nothing to list.
RescanFindsNothing ==
    /\ reader.pc = "rescan"
    /\ reader'.pc = "done"
    /\ reader'.out = <<>>

\* C33: an XREAD with BLOCK that was woken by an update of one of its keys
\* and whose re-scan lists nothing answers the null array, as it does when
\* its timeout elapses.
C33_WokenEmptyIsNull ==
    [][RescanFindsNothing => reader'.reply = "null"]_vars

(***************************************************************************)
(* The end of a connection and pipelined requests, checked under SpecConn. *)
(***************************************************************************)
\* serve is at read_buf and the socket holds nothing to read.
AtReadNothingToRead == conn.pc = "read" /\ csock = <<>>

\* C34: once the client has closed, the loop ends whatever the buffer holds.
\* At read_buf with the stream ended, the read returns 0 at once and the
\* turn of the loop changes nothing unless the buffer is empty (the loop
\* ends) or starts with a whole request (it is handled): stated as the
\* buffer being in one of these two cases whenever the loop is there.
C34_EndsAfterClose ==
    (ceof /\ AtReadNothingToRead) => (cbuf = <<>> \/ FromBytes(cbuf))

\* C36: a whole request that has arrived is handled without further bytes
\* of the client.  At read_buf with nothing to read and the stream open the
\* loop waits for the client: stated as no whole request being left in the
\* buffer whenever the loop is there.
C36_PipelinedAllHandled ==
    (~ceof /\ AtReadNothingToRead) => ~FromBytes(cbuf)

(***************************************************************************)
(* The recorded offsets and the master's own.                              *)
(***************************************************************************)
\* C37: the offset the loop has recorded for a replica is never above the
\* master's offset: at registration, and after every reply read in an ack
\* round, late replies of earlier rounds included.
C37_RecordedNotAboveMaster ==
    \A r \in DOMAIN offsets : offsets[r] <= moffset

\* A replica registered at offset 0 left the first round unanswered, and in
\* the second round the loop read its reply to the first GETACK: the offset
\* recorded from it is one GETACK behind the master's, and the reply to the
\* second GETACK is still unread.
C37_Witness ==
    \E r \in DOMAIN offsets :
        /\ hist.psync[r].arg = -1
        /\ wait.late
        /\ back[r] # <<>>
        /\ offsets[r] > 0
        /\ offsets[r] + GetAckFrame.size = moffset

(***************************************************************************)
(* XADD that fails, checked under SpecStore.                               *)
(***************************************************************************)
\* An XADD was answered an error in this step.
XaddFails == sout'.cmd = "xadd" /\ sout'.reply # "id" /\ sout' # sout

\* C38: an XADD that fails leaves the key space as it was: it creates no
\* key and changes no entry.
C38_FailedXaddChangesNothing == [][XaddFails => data' = data]_vars

(***************************************************************************)
(* C39.                                                                    *)
(***************************************************************************)
\* The step in which connection c is answered "Replication is broken": the
\* SET it was inside ends and nothing was put in the replication queue.
SetAnsweredError(c) ==
    /\ setpc[c].pc = "committed"
    /\ setpc'[c].pc = "idle"
    /\ commands' = commands

\* C39: a SET that is answered the error of the closed replication queue
\* leaves the key with the value it held when the SET was entered.
C39_FailedSetChangesNothing ==
    [][\A c \in Conns :
          SetAnsweredError(c) => mstore'[setpc[c].ev.key] = setpc[c].was]_vars

(***************************************************************************)
(* C40.                                                                    *)
(***************************************************************************)
\* The last request was an XRANGE whose start id is greater than its end id.
XrangeStartAfterEnd == XrangeAsked /\ ~XrangeStartNotAfterEnd

\* C40: no XRANGE makes the handler abort, and one whose start id is
\* greater than its end id is answered the empty array.
C40_RangeNeverAborts ==
    /\ xq_out.cmd = "xrange" => xq_out.status # "panic"
    /\ XrangeStartAfterEnd => xq_out.status = "ok" /\ xq_out.ids = <<>>

=============================================================================
